---- MODULE Spec2Model ----
(***************************************************************************)
(* A model of ezcellular: the ModemManager registry (modem_manager.cpp)    *)
(* with its ObjectManager proxy, and the Modem session (modem.cpp) with    *)
(* its state guards and its signal and location decoders.                  *)
(*                                                                         *)
(* Spec         the registry with every operation and handler run whole    *)
(* SpecQuery    the registry's queries                                     *)
(* SpecConc     the vector copy of available_modems() interleaved with the *)
(*              handlers of the event-loop thread                          *)
(* SpecLive     awaits against add signals queued for the event loop       *)
(* SpecModem    one Modem session and its guarded operations               *)
(* SpecAccess   the session's accessors and unguarded operations           *)
(* SpecLocation the location decoder over the answers of GetLocation       *)
(* SpecAnyMap   the AnyMap accessors over decoded signal records           *)
(* SpecCells    the cell decoder over the answers of GetCellInfo           *)
(* SpecSim      the unlock calls of a SIM                                  *)
(* SpecObserve  the session's observers and the signals of its object      *)
(* SpecTraffic  the traffic observers of a Connection                      *)
(* SpecTechnology  technology() over the access-technology codes           *)
(* SpecTime     the network time over the answers of GetNetworkTime        *)
(* SpecRoundTrip  insertion into an AnyMap followed by get<T>               *)
(* SpecRace     await_modem against the add handler, statement by          *)
(*              statement on their two threads                             *)
(* SpecReset    the registry with a Reset call that may fail               *)
(***************************************************************************)
EXTENDS Integers, Sequences, FiniteSets, TLC

\* ---- bounds of the model ------------------------------------------------
\* object paths the service hands out: /org/freedesktop/ModemManager1/Modem/1..MaxPath
MaxPath == 2
\* longest modems_ vector the model lets the handlers build
MaxModems == 3
\* number of promises await_modem may create in one behaviour
MaxAwaits == 2

Paths == 1..MaxPath

\* ---- values ---------------------------------------------------------------
\* constexpr auto ANY_IMEI
ANY_IMEI == "<ANY_IMEI>"
\* a Modem is modelled by the object path its dbus_proxy_ points to; a
\* moved-from Modem holds an empty shared_ptr
NullProxy == 0
\* the empty std::optional<Modem>
NoModem == -1
\* what a read of freed vector storage may yield besides a moved-from Modem
Garbage == -2
\* the empty std::optional<std::pair<std::string, std::promise<Modem>>>
NoAwait == <<>>

\* The Imei property the service reports for the device at an object path.
\* The odd paths belong to one physical device (a power cycle may bring it
\* back under another path), the even paths to another one.
DeviceImei(p) == IF p % 2 = 1 THEN "imei-A" ELSE "imei-B"
Imeis == {DeviceImei(p) : p \in Paths}

Range(s) == {s[i] : i \in 1..Len(s)}

VARIABLES
    \* ModemManager::ModemManager
    ctor_pc,        \* "start", "connected", "proxied", "ready", "failed"
    thrown,         \* the exception that left the constructor, "" when none
    loop_running,   \* enterEventLoopAsync() was called
    \* ModemManagerOMProxy
    modems_,        \* std::vector<Modem>
    awaited_modem_, \* NoAwait or <<imei, k>>, k the promise's index in promises
    promises,       \* shared states of the promises made by await_modem
    \* the service (org.freedesktop.ModemManager1 ObjectManager)
    managed,        \* object paths exported now, in order of appearance
    \* the process
    crashed,        \* the process was killed (null dereference)
    \* the caller's thread
    pc,             \* "idle", "reset_call", "reset_wait", "copying"
    ret,            \* what the last call returned
    reset_local,    \* locals of reset_modem: imei, fut
    copy,           \* state of the vector copy in available_modems
    \* history
    delivered,      \* number of notifications handled (capped at 1)
    added_since,    \* paths added since reset_modem registered its await
    \* the bus connection
    inflight,       \* InterfacesAdded signals emitted and not yet dispatched
    \* the two threads inside ModemManagerOMProxy
    loop,           \* the event-loop thread's position in onInterfacesAdded
    await_imei,     \* the argument of the await_modem the caller's thread is in
    \* one Modem session and the service's view of its device
    mm_state,       \* property State of org.freedesktop.ModemManager1.Modem
    mm_rate,        \* property Rate of ...Modem.Signal
    mm_tech,        \* property AccessTechnologies of ...Modem
    mm_lock,        \* property UnlockRequired of ...Modem
    input,          \* the argument a decoding function is applied to
    sent,           \* method calls the last operation sent to the service
    outcome,        \* how the last operation of the session ended
    \* signal handlers and what they call
    handlers,       \* the handlers registered on the Modem's proxy, by signal
    invoked,        \* the observer calls the last notification caused
    \* one Connection and the NetworkManager device of its interface
    nm              \* the bus connection, the device's statistics, the handlers

racevars == <<loop, await_imei>>

regvars == <<ctor_pc, thrown, loop_running, modems_, awaited_modem_, promises,
             managed, crashed, pc, ret, reset_local, copy,
             delivered, added_since, inflight, racevars>>

obsvars == <<handlers, invoked, nm>>

modemvars == <<mm_state, mm_rate, mm_tech, mm_lock, input, sent, outcome, obsvars>>

vars == <<regvars, modemvars>>

NoRet == [op |-> "", modem |-> NoModem, flag |-> FALSE, modems |-> <<>>]
NoReset == [imei |-> "", fut |-> 0]
NoCopy == [n |-> 0, buf |-> <<>>, stale |-> FALSE, seen |-> {}]
\* no handler runs on the event-loop thread
LoopIdle == [pc |-> "idle", objectPath |-> 0, awaited_imei |-> "", new_imei |-> "",
             error |-> ""]

\* sequences over S sorted increasingly: the iteration order of the std::map
\* GetManagedObjects returns
RECURSIVE SortedSeq(_)
SortedSeq(S) ==
    IF S = {} THEN <<>>
    ELSE LET m == CHOOSE x \in S : \A y \in S : x <= y
         IN <<m>> \o SortedSeq(S \ {m})

InitRegistry ==
    /\ ctor_pc = "start"
    /\ thrown = ""
    /\ loop_running = FALSE
    /\ modems_ = <<>>
    /\ awaited_modem_ = NoAwait
    /\ promises = <<>>
    /\ \E S \in SUBSET Paths :
          /\ Cardinality(S) <= MaxModems
          /\ managed = SortedSeq(S)
    /\ crashed = FALSE
    /\ pc = "idle"
    /\ ret = NoRet
    /\ reset_local = NoReset
    /\ copy = NoCopy
    /\ delivered = 0
    /\ added_since = <<>>
    /\ inflight = <<>>
    /\ loop = LoopIdle
    /\ await_imei = ""

\* ---- ModemManagerOMProxy ----------------------------------------------------

\* std::promise<Modem>::set_exception / set_value on promise k
set_exception(ps, k) == [ps EXCEPT ![k].state = "exception"]
set_value(ps, k, modem) == [ps EXCEPT ![k].state = "value", ![k].value = modem]

\* ModemManagerOMProxy::await_modem: the proxy's fields after the call
await_modem_existing(px, imei) ==
    LET made == Append(px.promises, [state |-> "pending", value |-> NoModem])
        here == {i \in 1..Len(px.modems) :
                    imei = ANY_IMEI \/ DeviceImei(px.modems[i]) = imei}
    IN IF here = {}
       THEN [px EXCEPT !.promises = made, !.awaited = <<imei, Len(made)>>]
       ELSE [px EXCEPT !.promises = set_value(made, Len(made),
                                              px.modems[CHOOSE i \in here : TRUE])]

await_modem_nocancel(px, imei) ==
    LET made == Append(px.promises, [state |-> "pending", value |-> NoModem])
    IN [px EXCEPT !.promises = made, !.awaited = <<imei, Len(made)>>]

await_modem_effect(px, imei) ==
    LET cancelled == IF px.awaited # NoAwait
                     THEN set_exception(px.promises, px.awaited[2])
                     ELSE px.promises
        made == Append(cancelled, [state |-> "pending", value |-> NoModem])
    IN [px EXCEPT !.promises = made, !.awaited = <<imei, Len(made)>>]

\* the comparison of line 96
imei_matches_any_only(awaited_imei, new_imei) == awaited_imei = ANY_IMEI

imei_matches(awaited_imei, new_imei) ==
    awaited_imei = ANY_IMEI \/ awaited_imei = new_imei

\* ModemManagerOMProxy::onInterfacesAdded: the proxy's fields after the handler
onInterfacesAdded_effect(px, objectPath) ==
    LET new_modem == objectPath
        fulfilled ==
            IF px.awaited # NoAwait
            THEN LET awaited_imei == px.awaited[1]
                     new_imei == DeviceImei(new_modem)
                 IN IF imei_matches(awaited_imei, new_imei)
                    THEN [px EXCEPT !.promises = set_value(px.promises, px.awaited[2], new_modem),
                                    !.awaited = NoAwait]
                    ELSE px
            ELSE px
    IN [fulfilled EXCEPT !.modems = Append(fulfilled.modems, new_modem)]

\* ModemManagerOMProxy::handleExisting: onInterfacesAdded for every object of
\* the map GetManagedObjects returned, in the map's order
handleExisting_first_only(px, managed_objs) ==
    IF managed_objs = <<>> THEN px
    ELSE onInterfacesAdded_effect(px, Head(managed_objs))

RECURSIVE handleExisting(_, _)
handleExisting(px, managed_objs) ==
    IF managed_objs = <<>> THEN px
    ELSE handleExisting(onInterfacesAdded_effect(px, Head(managed_objs)), Tail(managed_objs))

Proxy == [modems |-> modems_, awaited |-> awaited_modem_, promises |-> promises]

SetProxy(px) ==
    /\ modems_' = px.modems
    /\ awaited_modem_' = px.awaited
    /\ promises' = px.promises

\* std::remove_if over v with the predicate's answers given by hit: the first
\* hit is found, then every later element that is no hit is move-assigned
\* down; a moved-from Modem keeps an empty dbus_proxy_
RECURSIVE remove_if_shift(_, _, _, _)
remove_if_shift(v, hit, result, i) ==
    IF i > Len(v) THEN v
    ELSE IF hit[i] THEN remove_if_shift(v, hit, result, i + 1)
    ELSE remove_if_shift([v EXCEPT ![result] = v[i], ![i] = NullProxy],
                         hit, result + 1, i + 1)

remove_if(v, hit) ==
    IF \A i \in 1..Len(v) : ~hit[i] THEN v
    ELSE LET first == CHOOSE i \in 1..Len(v) : hit[i] /\ \A j \in 1..(i-1) : ~hit[j]
         IN remove_if_shift(v, hit, first, first + 1)

\* line 107: the vector after the call whose result is cast to void
removed_from(v, hit) == remove_if(v, hit)

\* the answers of the lambda of line 107 for objectPath: decided by the path of
\* the element's proxy; on a moved-from element m.dbus_proxy_-> dereferences
\* null, and the answer is whatever the build yields
PredicateAnswers(v, objectPath) ==
    {hit \in [1..Len(v) -> BOOLEAN] :
        \A i \in 1..Len(v) : v[i] # NullProxy => (hit[i] <=> v[i] = objectPath)}

\* ---- ModemManager::ModemManager ---------------------------------------------

\* conn_{sdbus::createSystemBusConnection()} in the member initialiser list,
\* outside the try block: an sdbus::Error leaves the constructor as it is
createSystemBusConnection(ok) ==
    /\ ctor_pc = "start"
    /\ IF ok
       THEN /\ ctor_pc' = "connected"
            /\ thrown' = thrown
       ELSE /\ ctor_pc' = "failed"
            /\ thrown' = "sdbus::Error"
    /\ UNCHANGED <<loop_running, modems_, awaited_modem_, promises, managed,
                   crashed, pc, ret, reset_local, copy, delivered,
                   added_since>>
    /\ UNCHANGED <<inflight, racevars, modemvars>>

\* the steps of std::make_unique<ModemManagerOMProxy>(conn_) that may throw
ProxySteps == {"registerProxy", "GetManagedObjects"}

\* mm_proxy_ = std::make_unique<ModemManagerOMProxy>(conn_) inside try/catch:
\* registerProxy(), then handleExisting(); an sdbus::Error of either is caught
\* and rethrown as ModemManagerException
make_ModemManagerOMProxy(failing) ==
    /\ ctor_pc = "connected"
    /\ IF failing \in ProxySteps
       THEN /\ ctor_pc' = "failed"
            /\ thrown' = "ModemManagerException"
            /\ UNCHANGED <<modems_, awaited_modem_, promises>>
       ELSE /\ ctor_pc' = "proxied"
            /\ thrown' = thrown
            /\ SetProxy(handleExisting(Proxy, managed))
    /\ UNCHANGED <<loop_running, managed, crashed, pc, ret, reset_local, copy,
                   delivered, added_since>>
    /\ UNCHANGED <<inflight, racevars, modemvars>>

\* conn_->enterEventLoopAsync(), after which the constructor returns
enterEventLoopAsync ==
    /\ ctor_pc = "proxied"
    /\ ctor_pc' = "ready"
    /\ loop_running' = TRUE
    /\ UNCHANGED <<thrown, modems_, awaited_modem_, promises, managed, crashed,
                   pc, ret, reset_local, copy, delivered,
                   added_since>>
    /\ UNCHANGED <<inflight, racevars, modemvars>>

\* ---- notifications, handled on the event-loop thread --------------------------

Delivered == IF delivered = 0 THEN 1 ELSE delivered

Blocked == pc \in {"reset_call", "reset_wait"}

\* InterfacesAdded for objectPath: a new object, or further interfaces of an
\* object already exported. A push_back may reallocate the vector's storage,
\* which leaves a copy in progress on the other thread reading freed memory.
onInterfacesAdded(objectPath) ==
    /\ loop_running /\ ~crashed
    /\ Len(modems_) < MaxModems
    /\ managed' = IF objectPath \in Range(managed) THEN managed
                  ELSE Append(managed, objectPath)
    /\ SetProxy(onInterfacesAdded_effect(Proxy, objectPath))
    /\ delivered' = Delivered
    /\ added_since' = IF Blocked THEN Append(added_since, objectPath) ELSE added_since
    /\ IF pc = "copying"
       THEN \E realloc \in BOOLEAN :
               copy' = [copy EXCEPT !.stale = @ \/ realloc,
                                    !.seen = @ \cup {modems_'}]
       ELSE copy' = copy
    /\ UNCHANGED <<ctor_pc, thrown, loop_running, crashed, pc, ret, reset_local>>
    /\ UNCHANGED <<inflight, racevars, modemvars>>

\* InterfacesRemoved for objectPath
onInterfacesRemoved(objectPath) ==
    /\ loop_running /\ ~crashed
    /\ objectPath \in Range(managed)
    /\ managed' = SelectSeq(managed, LAMBDA q : q # objectPath)
    /\ delivered' = Delivered
    /\ \/ /\ \E hit \in PredicateAnswers(modems_, objectPath) :
                modems_' = removed_from(modems_, hit)
          /\ crashed' = crashed
       \/ /\ \E i \in 1..Len(modems_) : modems_[i] = NullProxy
          /\ crashed' = TRUE
          /\ modems_' = modems_
    /\ copy' = IF pc = "copying" THEN [copy EXCEPT !.seen = @ \cup {modems_'}] ELSE copy
    /\ UNCHANGED <<ctor_pc, thrown, loop_running, awaited_modem_, promises, pc,
                   ret, reset_local, added_since>>
    /\ UNCHANGED <<inflight, racevars, modemvars>>

\* The service emits InterfacesAdded for a new object or for further interfaces
\* of an object already exported: the signal waits on the bus connection until
\* the event loop dispatches it.
InterfacesAdded(objectPath) ==
    /\ loop_running /\ ~crashed
    /\ Len(modems_) + Len(inflight) < MaxModems
    /\ managed' = IF objectPath \in Range(managed) THEN managed
                  ELSE Append(managed, objectPath)
    /\ inflight' = Append(inflight, objectPath)
    /\ UNCHANGED <<ctor_pc, thrown, loop_running, modems_, awaited_modem_,
                   promises, crashed, pc, ret, reset_local, copy, delivered,
                   added_since>>
    /\ UNCHANGED <<racevars, modemvars>>

\* The event loop started by enterEventLoopAsync takes the oldest signal from
\* the connection and runs onInterfacesAdded on it.
dispatch ==
    /\ loop_running /\ ~crashed
    /\ inflight # <<>>
    /\ SetProxy(onInterfacesAdded_effect(Proxy, Head(inflight)))
    /\ inflight' = Tail(inflight)
    /\ delivered' = Delivered
    /\ UNCHANGED <<ctor_pc, thrown, loop_running, managed, crashed, pc, ret,
                   reset_local, copy, added_since>>
    /\ UNCHANGED <<racevars, modemvars>>

\* ---- ModemManager's operations, called on the caller's thread -----------------

Callable == ctor_pc = "ready" /\ ~crashed /\ pc = "idle"

\* ModemManager::modems_available
modems_available_value(v) == v = <<>>

modems_available ==
    /\ Callable
    /\ ret' = [NoRet EXCEPT !.op = "modems_available",
                            !.flag = modems_available_value(modems_)]
    /\ UNCHANGED <<ctor_pc, thrown, loop_running, modems_, awaited_modem_,
                   promises, managed, crashed, pc, reset_local, copy,
                   delivered, added_since>>
    /\ UNCHANGED <<inflight, racevars, modemvars>>

\* ModemManager::any_modem
any_modem_value(v) == IF v = <<>> THEN NoModem ELSE v[1]

any_modem ==
    /\ Callable
    /\ ret' = [NoRet EXCEPT !.op = "any_modem", !.modem = any_modem_value(modems_)]
    /\ UNCHANGED <<ctor_pc, thrown, loop_running, modems_, awaited_modem_,
                   promises, managed, crashed, pc, reset_local, copy,
                   delivered, added_since>>
    /\ UNCHANGED <<inflight, racevars, modemvars>>

\* ModemManager::await_modem
await_modem(imei) ==
    /\ Callable
    /\ Len(promises) < MaxAwaits
    /\ SetProxy(await_modem_effect(Proxy, imei))
    /\ ret' = [NoRet EXCEPT !.op = "await_modem"]
    /\ UNCHANGED <<ctor_pc, thrown, loop_running, managed, crashed, pc,
                   reset_local, copy, delivered, added_since>>
    /\ UNCHANGED <<inflight, racevars, modemvars>>

\* ModemManager::reset_modem, lines 149-152: the IMEI of the session is read
\* and the await for it is registered
reset_imei_any(modem) == ANY_IMEI

reset_imei(modem) == DeviceImei(modem)

reset_modem_await(modem) ==
    /\ Callable
    /\ modem \in Range(managed)
    /\ Len(promises) < MaxAwaits
    /\ LET imei == reset_imei(modem)
           px == await_modem_effect(Proxy, imei)
       IN /\ SetProxy(px)
          /\ reset_local' = [imei |-> DeviceImei(modem), fut |-> px.awaited[2]]
    /\ pc' = "reset_call"
    /\ added_since' = <<>>
    /\ UNCHANGED <<ctor_pc, thrown, loop_running, managed, crashed, ret, copy, delivered>>
    /\ UNCHANGED <<inflight, racevars, modemvars>>

\* line 154: modem.reset()
reset_modem_reset ==
    /\ ~crashed
    /\ pc = "reset_call"
    /\ pc' = "reset_wait"
    /\ UNCHANGED <<ctor_pc, thrown, loop_running, modems_, awaited_modem_,
                   promises, managed, crashed, ret, reset_local, copy, delivered, added_since>>
    /\ UNCHANGED <<inflight, racevars, modemvars>>

\* line 154, modem.reset() failing: the sdbus::Error of the Reset call leaves
\* reset_modem; fut is destroyed, the promise stays in awaited_modem_
reset_modem_reset_throws ==
    /\ ~crashed
    /\ pc = "reset_call"
    /\ ret' = [NoRet EXCEPT !.op = "reset_modem: sdbus::Error"]
    /\ pc' = "idle"
    /\ reset_local' = NoReset
    /\ UNCHANGED <<ctor_pc, thrown, loop_running, modems_, awaited_modem_,
                   promises, managed, crashed, copy, delivered, added_since>>
    /\ UNCHANGED <<inflight, racevars, modemvars>>

\* lines 156-157: fut.wait(); return fut.get()
reset_modem_return ==
    /\ ~crashed
    /\ pc = "reset_wait"
    /\ promises[reset_local.fut].state # "pending"
    /\ ret' = IF promises[reset_local.fut].state = "value"
              THEN [NoRet EXCEPT !.op = "reset_modem",
                                 !.modem = promises[reset_local.fut].value]
              ELSE [NoRet EXCEPT !.op = "reset_modem: ModemManagerException"]
    /\ pc' = "idle"
    /\ reset_local' = NoReset
    /\ UNCHANGED <<ctor_pc, thrown, loop_running, modems_, awaited_modem_,
                   promises, managed, crashed, copy, delivered, added_since>>
    /\ UNCHANGED <<inflight, racevars, modemvars>>

Construct ==
    \/ \E ok \in BOOLEAN : createSystemBusConnection(ok)
    \/ \E failing \in ProxySteps \cup {"none"} : make_ModemManagerOMProxy(failing)
    \/ enterEventLoopAsync

Notify ==
    \/ \E p \in Paths : onInterfacesAdded(p)
    \/ \E p \in Paths : onInterfacesRemoved(p)

\* ModemManager::available_modems: return mm_proxy_->getModems() copies the
\* vector element by element while the event-loop thread may run a handler
available_modems_begin ==
    /\ Callable
    /\ pc' = "copying"
    /\ copy' = [n |-> Len(modems_), buf |-> <<>>, stale |-> FALSE, seen |-> {modems_}]
    /\ UNCHANGED <<ctor_pc, thrown, loop_running, modems_, awaited_modem_,
                   promises, managed, crashed, ret, reset_local, delivered,
                   added_since>>
    /\ UNCHANGED <<inflight, racevars, modemvars>>

available_modems_copy ==
    /\ ~crashed
    /\ pc = "copying"
    /\ Len(copy.buf) < copy.n
    /\ \E m \in IF copy.stale THEN {NullProxy, Garbage}
                ELSE {modems_[Len(copy.buf) + 1]} :
          copy' = [copy EXCEPT !.buf = Append(@, m)]
    /\ UNCHANGED <<ctor_pc, thrown, loop_running, modems_, awaited_modem_,
                   promises, managed, crashed, pc, ret, reset_local, delivered,
                   added_since>>
    /\ UNCHANGED <<inflight, racevars, modemvars>>

available_modems_return ==
    /\ ~crashed
    /\ pc = "copying"
    /\ Len(copy.buf) = copy.n
    /\ ret' = [NoRet EXCEPT !.op = "available_modems", !.modems = copy.buf]
    /\ pc' = "idle"
    /\ copy' = NoCopy
    /\ UNCHANGED <<ctor_pc, thrown, loop_running, modems_, awaited_modem_,
                   promises, managed, crashed, reset_local, delivered,
                   added_since>>
    /\ UNCHANGED <<inflight, racevars, modemvars>>

\* ---- await_modem against onInterfacesAdded, statement by statement -------------
\* Nothing orders the caller's thread and the event-loop thread: each of the
\* actions below is one stretch of statements of one thread, and the two
\* threads' stretches interleave freely.

\* lines 90-93, on the event-loop thread: new_modem is made; if (awaited_modem_)
\* is tested and the awaited IMEI copied
added_begin(objectPath) ==
    /\ loop_running /\ ~crashed
    /\ loop.pc = "idle"
    /\ Len(modems_) < MaxModems
    /\ managed' = IF objectPath \in Range(managed) THEN managed
                  ELSE Append(managed, objectPath)
    /\ loop' = IF awaited_modem_ # NoAwait
               THEN [LoopIdle EXCEPT !.pc = "imei", !.objectPath = objectPath,
                                     !.awaited_imei = awaited_modem_[1]]
               ELSE [LoopIdle EXCEPT !.pc = "push", !.objectPath = objectPath]
    /\ delivered' = Delivered
    /\ UNCHANGED <<ctor_pc, thrown, loop_running, modems_, awaited_modem_,
                   promises, crashed, pc, ret, reset_local, copy, added_since,
                   inflight, await_imei, modemvars>>

\* line 94: new_modem.imei() reads the property Imei; an sdbus::Error of the
\* read leaves the handler, and new_modem with it
added_imei(ok) ==
    /\ ~crashed
    /\ loop.pc = "imei"
    /\ loop' = IF ok
               THEN [loop EXCEPT !.pc = "compare", !.new_imei = DeviceImei(loop.objectPath)]
               ELSE [loop EXCEPT !.pc = "idle", !.error = "sdbus::Error"]
    /\ UNCHANGED <<ctor_pc, thrown, loop_running, modems_, awaited_modem_,
                   promises, managed, crashed, pc, ret, reset_local, copy,
                   delivered, added_since, inflight, await_imei, modemvars>>

\* lines 96-97: the comparison, and awaited_modem_->second.set_value(new_modem)
\* on the promise the slot holds now; set_value on a promise that is already
\* satisfied throws std::future_error, which leaves the handler and reaches
\* the library's dispatch code, where the process may end
added_set_value ==
    /\ ~crashed
    /\ loop.pc = "compare"
    /\ IF ~imei_matches(loop.awaited_imei, loop.new_imei)
       THEN /\ loop' = [loop EXCEPT !.pc = "push"]
            /\ UNCHANGED <<promises, crashed>>
       ELSE IF promises[awaited_modem_[2]].state = "pending"
       THEN /\ promises' = set_value(promises, awaited_modem_[2], loop.objectPath)
            /\ loop' = [loop EXCEPT !.pc = "reset"]
            /\ UNCHANGED crashed
       ELSE /\ loop' = [loop EXCEPT !.pc = "idle", !.error = "std::future_error"]
            /\ crashed' \in BOOLEAN
            /\ UNCHANGED promises
    /\ UNCHANGED <<ctor_pc, thrown, loop_running, modems_, awaited_modem_,
                   managed, pc, ret, reset_local, copy, delivered, added_since,
                   inflight, await_imei, modemvars>>

\* line 98: awaited_modem_.reset()
added_reset ==
    /\ ~crashed
    /\ loop.pc = "reset"
    /\ awaited_modem_' = NoAwait
    /\ loop' = [loop EXCEPT !.pc = "push"]
    /\ UNCHANGED <<ctor_pc, thrown, loop_running, modems_, promises, managed,
                   crashed, pc, ret, reset_local, copy, delivered, added_since,
                   inflight, await_imei, modemvars>>

\* line 102: modems_.push_back(std::move(new_modem))
added_push_back ==
    /\ ~crashed
    /\ loop.pc = "push"
    /\ modems_' = Append(modems_, loop.objectPath)
    /\ loop' = [loop EXCEPT !.pc = "idle"]
    /\ UNCHANGED <<ctor_pc, thrown, loop_running, awaited_modem_, promises,
                   managed, crashed, pc, ret, reset_local, copy, delivered,
                   added_since, inflight, await_imei, modemvars>>

\* lines 67-70, on the caller's thread: if (awaited_modem_) set_exception on
\* the promise the slot holds; set_exception on a promise that already holds a
\* value throws std::future_error, which leaves await_modem
await_cancel(imei) ==
    /\ Callable
    /\ Len(promises) < MaxAwaits
    /\ IF awaited_modem_ # NoAwait /\ promises[awaited_modem_[2]].state # "pending"
       THEN /\ ret' = [NoRet EXCEPT !.op = "await_modem: std::future_error"]
            /\ UNCHANGED <<promises, pc, await_imei>>
       ELSE /\ promises' = IF awaited_modem_ # NoAwait
                           THEN set_exception(promises, awaited_modem_[2])
                           ELSE promises
            /\ pc' = "await_assign"
            /\ await_imei' = imei
            /\ UNCHANGED ret
    /\ UNCHANGED <<ctor_pc, thrown, loop_running, modems_, awaited_modem_,
                   managed, crashed, reset_local, copy, delivered, added_since,
                   inflight, loop, modemvars>>

\* lines 71-72: awaited_modem_ = std::make_pair(imei, promise); get_future()
await_assign ==
    /\ ~crashed
    /\ pc = "await_assign"
    /\ promises' = Append(promises, [state |-> "pending", value |-> NoModem])
    /\ awaited_modem_' = <<await_imei, Len(promises) + 1>>
    /\ pc' = "idle"
    /\ await_imei' = ""
    /\ ret' = [NoRet EXCEPT !.op = "await_modem"]
    /\ UNCHANGED <<ctor_pc, thrown, loop_running, modems_, managed, crashed,
                   reset_local, copy, delivered, added_since, inflight, loop,
                   modemvars>>

\* ---- Modem --------------------------------------------------------------------

\* enum class Modem::ModemState
ModemState_FAILED == -1
ModemState_UNKNOWN == 0
ModemState_INITIALIZING == 1
ModemState_LOCKED == 2
ModemState_DISABLED == 3
ModemState_DISABLING == 4
ModemState_ENABLING == 5
ModemState_ENABLED == 6
ModemState_SEARCHING == 7
ModemState_REGISTERED == 8
ModemState_DISCONNECTING == 9
ModemState_CONNECTING == 10
ModemState_CONNECTED == 11

ModemStates == ModemState_FAILED..ModemState_CONNECTED

\* enum class Technology
Technology_UNKNOWN == 0
Technology_GSM == 1
Technology_UMTS == 2
Technology_LTE == 4
Technology_NR5G == 8

\* MM_MODEM_ACCESS_TECHNOLOGY_*: bit n of the AccessTechnologies property
AccessTechnology(bit) == 2 ^ bit

\* raw AccessTechnologies values the service reports to a session of the
\* model: unknown, GSM, UMTS, 1xRTT, LTE, 5GNR, and LTE with 5GNR (5G NSA)
AccessTechnologies ==
    {0} \cup {AccessTechnology(b) : b \in {1, 5, 10, 14, 15}}
        \cup {AccessTechnology(14) + AccessTechnology(15)}

\* the highest bit of the mask decides
technology_highest_bit(raw) ==
    IF raw >= AccessTechnology(15) THEN Technology_NR5G
    ELSE IF raw >= AccessTechnology(14) THEN Technology_LTE
    ELSE IF raw >= AccessTechnology(10) THEN Technology_UNKNOWN
    ELSE IF raw >= AccessTechnology(5) THEN Technology_UMTS
    ELSE IF raw >= AccessTechnology(1) THEN Technology_GSM
    ELSE Technology_UNKNOWN

\* Modem::technology
technology(raw) ==
    CASE raw \in {AccessTechnology(1), AccessTechnology(2), AccessTechnology(3),
                  AccessTechnology(4)} -> Technology_GSM
      [] raw \in {AccessTechnology(5), AccessTechnology(6), AccessTechnology(7),
                  AccessTechnology(8), AccessTechnology(9)} -> Technology_UMTS
      [] raw = AccessTechnology(14) -> Technology_LTE
      [] raw = AccessTechnology(15) -> Technology_NR5G
      [] OTHER -> Technology_UNKNOWN

\* longest refresh interval observe_signal is called with
MaxInterval == 2

\* enum class LockState, and the values of MM_MODEM_LOCK_* it has no name for
LockState_UNKNOWN == 0
LockState_UNLOCKED == 1
LockState_SIM_PIN == 2
LockState_SIM_PIN2 == 3
LockState_SIM_PUK == 4
LockState_SIM_PUK2 == 5

\* values of the UnlockRequired property: the six named ones and the first
\* lock of MM_MODEM_LOCK_* without a name in LockState (PH_SP_PIN)
LockStates == LockState_UNKNOWN..(LockState_SIM_PUK2 + 1)

\* what an operation returns: nothing, or a null shared_ptr
Void == [kind |-> "void"]
Null == [kind |-> "null"]

\* no operation of the session was called yet
NoOutcome ==
    [op |-> "", state |-> ModemState_UNKNOWN, guard |-> "", error |-> "",
     msg |-> <<>>, value |-> Void]

\* no handler is registered, the Connection is not used
NoHandlers == [signalName \in {} |-> 0]
NmIdle == [alive |-> TRUE, rate |-> 0, rx |-> 0, tx |-> 0, observers |-> <<>>]

NoObservers == handlers = NoHandlers /\ invoked = <<>> /\ nm = NmIdle

InitModem ==
    /\ mm_state \in ModemStates
    /\ mm_rate = 0
    /\ mm_tech \in AccessTechnologies
    /\ mm_lock = LockState_UNLOCKED
    /\ input = <<>>
    /\ sent = <<>>
    /\ outcome = NoOutcome
    /\ NoObservers

\* the session is not used
ModemIdle ==
    /\ mm_state = ModemState_UNKNOWN
    /\ mm_rate = 0
    /\ mm_tech = 0
    /\ mm_lock = LockState_UNKNOWN
    /\ input = <<>>
    /\ sent = <<>>
    /\ outcome = NoOutcome
    /\ NoObservers

\* the registry the session was taken from: constructed, one device
RegistryReady ==
    /\ ctor_pc = "ready"
    /\ thrown = ""
    /\ loop_running = TRUE
    /\ modems_ = <<1>>
    /\ awaited_modem_ = NoAwait
    /\ promises = <<>>
    /\ managed = <<1>>
    /\ crashed = FALSE
    /\ pc = "idle"
    /\ ret = NoRet
    /\ reset_local = NoReset
    /\ copy = NoCopy
    /\ delivered = 0
    /\ added_since = <<>>
    /\ inflight = <<>>
    /\ loop = LoopIdle
    /\ await_imei = ""

\* assert_state: whether it throws
assert_state_throws_le(current_state, required_state) ==
    current_state <= required_state

assert_state_never_throws(current_state, required_state) == FALSE

assert_state_throws(current_state, required_state) ==
    current_state < required_state

\* an operation that starts with assert_state(*this, required_state, ...): the
\* State property is read and compared; when the guard lets the operation pass,
\* Body is what it does next
Guarded(name, required_state, Body) ==
    LET current_state == mm_state
    IN /\ UNCHANGED regvars
       /\ IF assert_state_throws(current_state, required_state)
          THEN /\ outcome' = [op |-> name, state |-> current_state,
                              guard |-> "rejected",
                              error |-> "ModemException: modem state",
                              msg |-> <<current_state, required_state>>,
                              value |-> Void]
               /\ sent' = <<>>
               /\ UNCHANGED <<mm_state, mm_rate, mm_tech, mm_lock, input, obsvars>>
          ELSE Body

\* the operation went past its guard and ended with this error ("" for none)
\* and this return value
Returned(name, error, value) ==
    outcome' = [op |-> name, state |-> mm_state, guard |-> "passed",
                error |-> error, msg |-> <<>>, value |-> value]

Passed(name, error) == Returned(name, error, Void)

\* Modem::set_power_state, behind power_off, power_low and power_on
set_power_state(name, state) ==
    Guarded(name, ModemState_DISABLED,
            /\ sent' = <<"SetPowerState">>
            /\ Passed(name, "")
            /\ UNCHANGED <<mm_state, mm_rate, mm_tech, mm_lock, input, obsvars>>)

power_off == set_power_state("power_off", 1)
power_low == set_power_state("power_low", 2)
power_on == set_power_state("power_on", 3)

\* an operation without a state guard ended with this error and return value;
\* the State property was not read
Unguarded(name, error, value) ==
    outcome' = [op |-> name, state |-> ModemState_UNKNOWN, guard |-> "none",
                error |-> error, msg |-> <<>>, value |-> value]

\* Modem::network_time, time_str being the answer of GetNetworkTime
network_time(time_str) ==
    Guarded("network_time", ModemState_ENABLED,
            /\ sent' = <<"GetNetworkTime">>
            /\ Returned("network_time", "", [kind |-> "std::string", str |-> time_str])
            /\ UNCHANGED <<mm_state, mm_rate, mm_tech, mm_lock, input, obsvars>>)

\* ---- AnyMap: a std::map from keys to std::any, modelled as a function -------
\* A std::any, and likewise a sdbus::Variant, is a value together with the type
\* it was stored as.
any(T, val) == [type |-> T, val |-> val]

\* std::map::insert: an existing key keeps its value
insert(m, key, val) ==
    IF key \in DOMAIN m THEN m
    ELSE [k \in DOMAIN m \cup {key} |-> IF k = key THEN val ELSE m[k]]

\* a variant inserted under the key it was reported under
maybe_insert_under_from_key(m, dbus_map, from_key, as_key) ==
    IF from_key \in DOMAIN dbus_map THEN insert(m, from_key, dbus_map[from_key]) ELSE m

\* the variant itself stored, not the value taken out of it
maybe_insert_variant(m, dbus_map, from_key, as_key) ==
    IF from_key \in DOMAIN dbus_map
    THEN insert(m, as_key, any("sdbus::Variant", dbus_map[from_key].val))
    ELSE m

\* AnyMap::maybe_insert_from_variant_map_as, AnyMap::maybe_insert_from_variant_map
maybe_insert_from_variant_map_as(m, dbus_map, from_key, as_key) ==
    IF from_key \in DOMAIN dbus_map THEN insert(m, as_key, dbus_map[from_key]) ELSE m

maybe_insert_from_variant_map(m, dbus_map, key) ==
    maybe_insert_from_variant_map_as(m, dbus_map, key, key)

\* AnyMap::get<T>: std::map::at throws std::out_of_range for a key that is not
\* there, std::any_cast<T> throws std::bad_any_cast for a value stored as
\* another type
get_unchecked(m, T, key) ==
    IF key \notin DOMAIN m THEN [error |-> "std::out_of_range", value |-> Void]
    ELSE [error |-> "", value |-> [kind |-> "value", type |-> T, val |-> m[key].val]]

get(m, T, key) ==
    IF key \notin DOMAIN m THEN [error |-> "std::out_of_range", value |-> Void]
    ELSE IF m[key].type # T THEN [error |-> "std::bad_any_cast", value |-> Void]
    ELSE [error |-> "", value |-> [kind |-> "value", type |-> T, val |-> m[key].val]]

\* AnyMap::get_or_default<T>: catch (...) around get<T>
get_or_default(m, T, key, default_) ==
    LET r == get(m, T, key)
    IN IF r.error # "" THEN [error |-> "",
                             value |-> [kind |-> "value", type |-> T, val |-> default_]]
       ELSE r

\* the keys of the records of the model in std::string's ascending order, the
\* order a std::map is iterated in
StringOrder ==
    <<"ci", "earfcn", "location", "mcc", "mnc", "nrarfcn", "pci", "rsrp", "rsrq",
      "rssi", "serving", "signal", "sinr", "snr", "tac", "tech">>

\* AnyMap::keys: std::vector<std::string> keys(size()) is a vector of size()
\* empty strings, and push_back appends each key after them
keys(m) ==
    [i \in 1..Cardinality(DOMAIN m) |-> ""]
        \o SelectSeq(StringOrder, LAMBDA k : k \in DOMAIN m)

\* SignalBase::SignalBase
SignalBase(tech) == [k \in {"tech"} |-> any("Technology", tech)]

\* SignalLTE::from_variant_map, SignalNR5G::from_variant_map
SignalLTE_from_variant_map(dbus_map) ==
    LET m1 == maybe_insert_from_variant_map(SignalBase(Technology_LTE), dbus_map, "rsrp")
        m2 == maybe_insert_from_variant_map(m1, dbus_map, "rsrq")
        m3 == maybe_insert_from_variant_map(m2, dbus_map, "rssi")
    IN maybe_insert_from_variant_map_as(m3, dbus_map, "snr", "sinr")

SignalNR5G_from_variant_map(dbus_map) ==
    LET m1 == maybe_insert_from_variant_map(SignalBase(Technology_NR5G), dbus_map, "rsrp")
        m2 == maybe_insert_from_variant_map(m1, dbus_map, "rsrq")
    IN maybe_insert_from_variant_map_as(m2, dbus_map, "snr", "sinr")

\* dbus_signal_to_Signal: the Signal it returns or the exception it throws
dbus_signal_to_Signal_lte_only(tech, signal_map) ==
    [error |-> "",
     value |-> [kind |-> "Signal", map |-> SignalLTE_from_variant_map(signal_map)]]

dbus_signal_to_Signal(tech, signal_map) ==
    CASE tech = Technology_LTE ->
           [error |-> "",
            value |-> [kind |-> "Signal", map |-> SignalLTE_from_variant_map(signal_map)]]
      [] tech = Technology_NR5G ->
           [error |-> "",
            value |-> [kind |-> "Signal", map |-> SignalNR5G_from_variant_map(signal_map)]]
      [] OTHER -> [error |-> "ModemException: technology", value |-> Void]

\* SignalLTE::rsrp, rsrq, rssi, sinr and SignalNR5G::rsrp, rsrq, sinr: the
\* fields each record type has an accessor for, each accessor get<double>
SignalFields(tech) ==
    IF tech = Technology_LTE THEN {"rsrp", "rsrq", "rssi", "sinr"}
    ELSE {"rsrp", "rsrq", "sinr"}

Signal_field(sig, field) == get(sig, "double", field)

\* the fields the service reports and a value for each
SignalKeys == {"rsrp", "rsrq", "rssi", "snr"}
SignalValue(k) ==
    CASE k = "rsrp" -> -95 [] k = "rsrq" -> -11 [] k = "rssi" -> -60 [] OTHER -> 13

\* values of the Lte and Nr5g properties of ...Modem.Signal: nothing measured
\* yet, one value, every value
SignalMaps ==
    {[k \in {} |-> any("double", 0)],
     [k \in {"rsrp"} |-> any("double", -95)],
     [k \in {"rsrp", "rsrq", "rssi", "snr"} |->
        any("double", CASE k = "rsrp" -> -95 [] k = "rsrq" -> -11
                        [] k = "rssi" -> -60 [] OTHER -> 13)]}

\* line 245: whether signal() calls Setup
needs_setup_always(rate) == TRUE

needs_setup(rate) == rate = 0

\* Modem::signal: the guard, the refresh rate set up when it is 0, then the
\* signal property of the current technology is fetched and decoded; sent also
\* lists the fetch of that property
signal(signal_map) ==
    Guarded("signal", ModemState_REGISTERED,
            LET setup == IF needs_setup(mm_rate) THEN <<"Setup">> ELSE <<>>
                tech == technology(mm_tech)
            IN /\ mm_rate' = IF needs_setup(mm_rate) THEN 5 ELSE mm_rate
               /\ CASE tech = Technology_LTE ->
                         LET r == dbus_signal_to_Signal(tech, signal_map)
                         IN /\ sent' = setup \o <<"Get(Lte)">>
                            /\ Returned("signal", r.error, r.value)
                    [] tech = Technology_NR5G ->
                         LET r == dbus_signal_to_Signal(tech, signal_map)
                         IN /\ sent' = setup \o <<"Get(Nr5g)">>
                            /\ Returned("signal", r.error, r.value)
                    [] OTHER ->
                         /\ sent' = setup
                         /\ Returned("signal", "ModemException: technology", Void)
               /\ UNCHANGED <<mm_state, mm_tech, mm_lock, input, obsvars>>)

\* ---- signal handlers of the Modem's proxy ------------------------------------
\* most observers a caller brings
MaxObservers == 2
Observers == 1..MaxObservers

MM_IF_MODEM == "org.freedesktop.ModemManager1.Modem"
MM_IF_MODEM_LOCATION == "org.freedesktop.ModemManager1.Modem.Location"
MM_IF_MODEM_SIGNAL == "org.freedesktop.ModemManager1.Modem.Signal"

\* uponSignal(signalName).onInterface(...).call(callback) followed by
\* finishRegistration(): the proxy keeps one handler per signal of an
\* interface, and sdbus::IProxy::registerSignalHandler throws sdbus::Error when
\* the signal of that interface already has one
registerSignalHandler(h, signalName, handler) ==
    IF signalName \in DOMAIN h THEN [error |-> "sdbus::Error", handlers |-> h]
    ELSE [error |-> "",
          handlers |-> [k \in DOMAIN h \cup {signalName} |->
                           IF k = signalName THEN handler ELSE h[k]]]

\* a callback and what it captured: the observer by copy, or a reference to
\* the caller's observer which is gone when the caller passed a temporary
Handler(kind, observer, dangling) ==
    [kind |-> kind, observer |-> observer, dangling |-> dangling]

\* one call of an observer
Call(observer, value) == [observer |-> observer, value |-> value]

\* Modem::observe_modem_state: no state guard
observe_modem_state(observer) ==
    LET reg == registerSignalHandler(handlers, "StateChanged",
                                     Handler("modem_state", observer, FALSE))
    IN /\ sent' = <<>>
       /\ handlers' = reg.handlers
       /\ Unguarded("observe_modem_state", reg.error, Void)
       /\ UNCHANGED <<mm_state, mm_rate, mm_tech, mm_lock, input, invoked, nm, regvars>>

\* Modem::observe_signal: the guard, Setup, then the registration
observe_signal(observer, interval_sec) ==
    Guarded("observe_signal", ModemState_REGISTERED,
            LET reg == registerSignalHandler(handlers, "PropertiesChanged",
                                             Handler("signal", observer, FALSE))
            IN /\ sent' = <<"Setup">>
               /\ mm_rate' = interval_sec
               /\ handlers' = reg.handlers
               /\ Passed("observe_signal", reg.error)
               /\ UNCHANGED <<mm_state, mm_tech, mm_lock, input, invoked, nm>>)

\* the callback of observe_signal (lines 275-292): the observer calls it makes
signal_callback_nr5g_first(observer, interfaceName, changedProperties) ==
    IF interfaceName # MM_IF_MODEM_SIGNAL THEN <<>>
    ELSE IF "Nr5g" \in DOMAIN changedProperties
    THEN <<Call(observer, dbus_signal_to_Signal(Technology_NR5G,
                                                changedProperties["Nr5g"]).value)>>
    ELSE IF "Lte" \in DOMAIN changedProperties
    THEN <<Call(observer, dbus_signal_to_Signal(Technology_LTE,
                                                changedProperties["Lte"]).value)>>
    ELSE <<>>

signal_callback(observer, interfaceName, changedProperties) ==
    IF interfaceName # MM_IF_MODEM_SIGNAL THEN <<>>
    ELSE IF "Lte" \in DOMAIN changedProperties
    THEN <<Call(observer, dbus_signal_to_Signal(Technology_LTE,
                                                changedProperties["Lte"]).value)>>
    ELSE IF "Nr5g" \in DOMAIN changedProperties
    THEN <<Call(observer, dbus_signal_to_Signal(Technology_NR5G,
                                                changedProperties["Nr5g"]).value)>>
    ELSE <<>>

\* ---- the 3GPP location string and std::sscanf ---------------------------------
\* A std::string is a sequence of one-character strings.
isdigit(c) == c \in {"0", "1", "2", "3", "4", "5", "6", "7", "8", "9"}

XDigits == <<"0", "1", "2", "3", "4", "5", "6", "7", "8", "9",
             "A", "B", "C", "D", "E", "F">>
xdigits == <<"0", "1", "2", "3", "4", "5", "6", "7", "8", "9",
             "a", "b", "c", "d", "e", "f">>

isxdigit(c) == \E i \in 1..16 : XDigits[i] = c \/ xdigits[i] = c
xdigit_value(c) == (CHOOSE i \in 1..16 : XDigits[i] = c \/ xdigits[i] = c) - 1
isspace(c) == c \in {" "}

\* %3[0-9]: how many characters from position i on the conversion takes
RECURSIVE scan_set(_, _, _)
scan_set(s, i, width) ==
    IF width = 0 \/ i > Len(s) \/ ~isdigit(s[i]) THEN 0
    ELSE 1 + scan_set(s, i + 1, width - 1)

\* white space a numeric conversion skips
RECURSIVE skip_space(_, _)
skip_space(s, i) ==
    IF i <= Len(s) /\ isspace(s[i]) THEN skip_space(s, i + 1) ELSE i

\* one more digit of a base-16 number
dec_accumulate(acc, d) == acc * 10 + d

hex_accumulate(acc, d) == acc * 16 + d

\* %X from position i on: the digits it takes and their value
RECURSIVE scan_xdigits(_, _, _, _)
scan_xdigits(s, i, n, acc) ==
    IF i > Len(s) \/ ~isxdigit(s[i]) THEN [n |-> n, next |-> i, value |-> acc]
    ELSE scan_xdigits(s, i + 1, n + 1, hex_accumulate(acc, xdigit_value(s[i])))

\* %X and %*X; the strings of the model carry no sign and no 0x prefix, and
\* their values fit an unsigned int
scan_X(s, i) == scan_xdigits(s, skip_space(s, i), 0, 0)

\* whether the format's literal ',' matches at position i
literal_comma(s, i) == i <= Len(s) /\ s[i] = ","

EOF == -1

\* std::sscanf(loc_data, "%3[0-9],%3[0-9],%*X,%X,%X", mcc, mnc, &ci, &tac): the
\* number of assigned items and what was assigned
sscanf_location(s) ==
    LET none == [count |-> 0, mcc |-> <<>>, mnc |-> <<>>, ci |-> 0, tac |-> 0]
        n1 == scan_set(s, 1, 3)
        p1 == 1 + n1
        got1 == [none EXCEPT !.count = 1, !.mcc = SubSeq(s, 1, n1)]
        n2 == scan_set(s, p1 + 1, 3)
        p2 == p1 + 1 + n2
        got2 == [got1 EXCEPT !.count = 2, !.mnc = SubSeq(s, p1 + 1, p1 + n2)]
        lac == scan_X(s, p2 + 1)
        ci == scan_X(s, lac.next + 1)
        got3 == [got2 EXCEPT !.count = 3, !.ci = ci.value]
        tac == scan_X(s, ci.next + 1)
        got4 == [got3 EXCEPT !.count = 4, !.tac = tac.value]
    IN IF s = <<>> THEN [none EXCEPT !.count = EOF]
       ELSE IF n1 = 0 THEN none
       ELSE IF ~literal_comma(s, p1) \/ n2 = 0 THEN got1
       ELSE IF ~literal_comma(s, p2) \/ lac.n = 0 THEN got2
       ELSE IF ~literal_comma(s, lac.next) \/ ci.n = 0 THEN got2
       ELSE IF ~literal_comma(s, ci.next) \/ tac.n = 0 THEN got3
       ELSE got4

\* LocationLTE::LocationLTE, and LocationNR5G::LocationNR5G which overwrites the
\* tag the LocationLTE constructor inserted
LocationLTE == [k \in {"tech"} |-> any("Technology", Technology_LTE)]
LocationNR5G == [LocationLTE EXCEPT !["tech"] = any("Technology", Technology_NR5G)]

MM_MODEM_LOCATION_SOURCE_3GPP_LAC_CI == 1

\* dbus_location_to_Location, rat being what modem.technology() returns
dbus_location_to_Location(rat, location_dict) ==
    IF MM_MODEM_LOCATION_SOURCE_3GPP_LAC_CI \notin DOMAIN location_dict THEN Null
    ELSE LET loc_data == location_dict[MM_MODEM_LOCATION_SOURCE_3GPP_LAC_CI]
             parsed == sscanf_location(loc_data)
             filled(loc) ==
                 insert(insert(insert(insert(loc, "mcc", any("std::string", parsed.mcc)),
                                      "mnc", any("std::string", parsed.mnc)),
                               "ci", any("uint32_t", parsed.ci)),
                        "tac", any("uint32_t", parsed.tac))
             lte_nr_loc == IF rat = Technology_LTE THEN <<LocationLTE>>
                           ELSE IF rat # Technology_NR5G THEN <<LocationNR5G>>
                           ELSE <<>>
         IN IF lte_nr_loc = <<>> THEN Null
            ELSE IF parsed.count # 4 THEN Null
            ELSE [kind |-> "Location", map |-> filled(lte_nr_loc[1])]

\* most fields a location string of the model is joined from
MaxFields == 5

\* the fields: an MCC, an MNC, a LAC, a CI and a TAC as the service writes
\* them, and an empty field
LocationFields ==
    {<<"2", "6", "2">>, <<"0", "1">>, <<"1", "A", "2", "B">>,
     <<"0", "0", "0", "0", "A", "1", "B", "2">>,
     <<"0", "0", "1", "1", "2", "2", "3", "3">>, <<>>}

RECURSIVE Join(_)
Join(fields) ==
    IF fields = <<>> THEN <<>>
    ELSE IF Len(fields) = 1 THEN fields[1]
    ELSE fields[1] \o <<",">> \o Join(Tail(fields))

\* the std::map<uint32_t, sdbus::Variant> of GetLocation: without the 3GPP
\* LAC/CI source, or with a string under it
LocationDicts ==
    {[k \in {} |-> <<>>]}
        \cup {[k \in {MM_MODEM_LOCATION_SOURCE_3GPP_LAC_CI} |-> Join(f)] :
                 f \in UNION {[1..n -> LocationFields] : n \in 0..MaxFields}}

\* the answers of GetLocation the session's operations are run against
SampleLocations ==
    {[k \in {} |-> <<>>],
     [k \in {MM_MODEM_LOCATION_SOURCE_3GPP_LAC_CI} |->
        <<"2", "6", "2", ",", "0", "1", ",", "1", "A", "2", "B", ",",
          "A", "1", "B", "2", ",", "1", "1">>],
     [k \in {MM_MODEM_LOCATION_SOURCE_3GPP_LAC_CI} |->
        <<"2", "6", "2", ",", "0", "1", ",", "1", "A", "2", "B">>]}

\* Modem::location
location(location_res) ==
    Guarded("location", ModemState_REGISTERED,
            /\ sent' = <<"GetLocation">>
            /\ Returned("location", "",
                        dbus_location_to_Location(technology(mm_tech), location_res))
            /\ UNCHANGED <<mm_state, mm_rate, mm_tech, mm_lock, input, obsvars>>)

\* Modem::observe_location: the callback captures the caller's observer by
\* reference; temporary says that the caller's observer does not outlive the
\* call
observe_location(observer, temporary) ==
    Guarded("observe_location", ModemState_REGISTERED,
            LET reg == registerSignalHandler(handlers, "PropertiesChanged",
                                             Handler("location", observer, temporary))
            IN /\ sent' = <<"Location.Setup">>
               /\ handlers' = reg.handlers
               /\ Passed("observe_location", reg.error)
               /\ UNCHANGED <<mm_state, mm_rate, mm_tech, mm_lock, input, invoked, nm>>)

\* the callback of observe_location (lines 379-393): the observer calls it
\* makes, decoded for the technology the modem has when the callback runs
location_callback(observer, interfaceName, changedProperties, rat) ==
    IF interfaceName # MM_IF_MODEM_LOCATION THEN <<>>
    ELSE IF "Location" \in DOMAIN changedProperties
    THEN <<Call(observer, dbus_location_to_Location(rat, changedProperties["Location"]))>>
    ELSE <<>>

\* the property changes the service announces in one PropertiesChanged signal
ChangedProperties ==
    LET one == [k \in {"rsrp"} |-> any("double", -95)]
        two == [k \in {"rsrp", "rsrq"} |-> any("double", SignalValue(k))]
        all == [k \in {"rsrp", "rsrq", "snr"} |-> any("double", SignalValue(k))]
    IN {[k \in {} |-> one],
        [k \in {"Rate"} |-> one],
        [k \in {"Lte"} |-> all],
        [k \in {"Nr5g"} |-> one],
        [k \in {"Lte", "Nr5g"} |-> IF k = "Lte" THEN two ELSE all]}
      \cup {[k \in {"Location"} |-> location_res] : location_res \in SampleLocations}

InterfaceNames == {MM_IF_MODEM, MM_IF_MODEM_SIGNAL, MM_IF_MODEM_LOCATION}

\* the event loop dispatches a PropertiesChanged signal of the modem's object to
\* the handler registered for it; a call through a dangling reference calls
\* the caller's observer or whatever is there by then
PropertiesChanged(interfaceName, changedProperties) ==
    /\ IF "PropertiesChanged" \notin DOMAIN handlers THEN invoked' = <<>>
       ELSE LET handler == handlers["PropertiesChanged"]
                calls(observer) ==
                    IF handler.kind = "signal"
                    THEN signal_callback(observer, interfaceName, changedProperties)
                    ELSE location_callback(observer, interfaceName, changedProperties,
                                           technology(mm_tech))
            IN IF handler.dangling
               THEN invoked' \in {calls(handler.observer), calls(Garbage)}
               ELSE invoked' = calls(handler.observer)
    /\ UNCHANGED <<mm_state, mm_rate, mm_tech, mm_lock, input, sent, outcome,
                   handlers, nm, regvars>>

\* an accessor that reads the State or the UnlockRequired property and
\* returns a bool
Flag(name, flag) ==
    /\ outcome' = [op |-> name, state |-> mm_state, guard |-> "none",
                   error |-> "", msg |-> <<>>,
                   value |-> [kind |-> "bool", flag |-> flag]]
    /\ sent' = <<>>
    /\ UNCHANGED <<mm_state, mm_rate, mm_tech, mm_lock, input, obsvars, regvars>>

\* Modem::enabled, Modem::locked, Modem::registered, Modem::connected
enabled_value(state) == state >= ModemState_ENABLED

locked_value_pin2(lock) == lock # LockState_UNLOCKED

locked_value(lock) == lock # LockState_UNLOCKED /\ lock # LockState_SIM_PIN2

registered_value(state) == state >= ModemState_REGISTERED

connected_value(state) == state = ModemState_CONNECTED

enabled == Flag("enabled", enabled_value(mm_state))
locked == Flag("locked", locked_value(mm_lock))
registered == Flag("registered", registered_value(mm_state))
connected == Flag("connected", connected_value(mm_state))

\* Modem::connect: the method calls it sends, given which of them the service
\* answers with an error
connect_calls_rollback(create_ok, connect_ok) ==
    IF ~create_ok THEN <<"CreateBearer">>
    ELSE IF ~connect_ok THEN <<"CreateBearer", "Bearer.Connect", "DeleteBearer">>
    ELSE <<"CreateBearer", "Bearer.Connect">>

connect_calls(create_ok, connect_ok) ==
    IF ~create_ok THEN <<"CreateBearer">>
    ELSE <<"CreateBearer", "Bearer.Connect">>

\* the sdbus::Error that leaves connect
connect_error(create_ok, connect_ok) ==
    IF ~create_ok THEN "sdbus::Error: CreateBearer"
    ELSE IF ~connect_ok THEN "sdbus::Error: Bearer.Connect"
    ELSE ""

connect(create_ok, connect_ok) ==
    /\ sent' = connect_calls(create_ok, connect_ok)
    /\ Unguarded("connect", connect_error(create_ok, connect_ok), Void)
    /\ UNCHANGED <<mm_state, mm_rate, mm_tech, mm_lock, input, obsvars, regvars>>

\* MM_CELL_TYPE_LTE, MM_CELL_TYPE_5GNR, and MM_CELL_TYPE_GSM for a cell type
\* that is neither
MM_CELL_TYPE_GSM == 2
MM_CELL_TYPE_LTE == 5
MM_CELL_TYPE_5GNR == 6

\* longest list of raw records GetCellInfo answers with
MaxCells == 2

\* a raw record of GetCellInfo: a dictionary with or without the cell-type key
RawCells ==
    {[k \in {} |-> any("uint32_t", 0)]}
        \cup {[k \in {"cell-type"} |-> any("uint32_t", t)] :
                 t \in {MM_CELL_TYPE_GSM, MM_CELL_TYPE_LTE, MM_CELL_TYPE_5GNR}}

CellResults == UNION {[1..n -> RawCells] : n \in 0..MaxCells}

\* std::stoul(str, nullptr, 16): the value of the longest prefix of hexadecimal
\* digits after white space; std::invalid_argument when there is no digit. The
\* strings of the model carry no sign and no 0x prefix and fit an unsigned long.
stoul(str) ==
    LET r == scan_X(str, 1)
    IN IF r.n = 0 THEN [error |-> "std::invalid_argument", value |-> 0]
       ELSE [error |-> "", value |-> r.value]

\* if (auto it = dbus_map.find(key); it != dbus_map.end()) { ... std::stoul ...
\* insert({as_key, static_cast<T>(value)}) }, T being uint32_t or uint16_t
insert_hex(r, dbus_map, key, as_key, T) ==
    IF r.error # "" \/ key \notin DOMAIN dbus_map THEN r
    ELSE LET parsed == stoul(dbus_map[key].val)
             cast == IF T = "uint16_t" THEN parsed.value % 65536 ELSE parsed.value
         IN IF parsed.error # "" THEN [error |-> parsed.error, map |-> r.map]
            ELSE [error |-> "", map |-> insert(r.map, as_key, any(T, cast))]

\* LocationBase::plmn_to_mcc_mnc: substr(3) throws for a string shorter than 3
plmn_to_mcc_mnc(plmn) ==
    IF Len(plmn) < 3 THEN [error |-> "std::out_of_range", mcc |-> <<>>, mnc |-> <<>>]
    ELSE [error |-> "", mcc |-> SubSeq(plmn, 1, 3), mnc |-> SubSeq(plmn, 4, Len(plmn))]

\* LocationBase::fill_from_variant_map, LocationLTE::fill_from_variant_map
LocationBase_fill_from_variant_map(m, dbus_map) ==
    LET plmn == IF "operator-id" \in DOMAIN dbus_map
                THEN plmn_to_mcc_mnc(dbus_map["operator-id"].val)
                ELSE [error |-> "", mcc |-> <<>>, mnc |-> <<>>]
        m1 == IF "operator-id" \in DOMAIN dbus_map
              THEN insert(insert(m, "mcc", any("std::string", plmn.mcc)),
                          "mnc", any("std::string", plmn.mnc))
              ELSE m
    IN IF plmn.error # "" THEN [error |-> plmn.error, map |-> m]
       ELSE insert_hex([error |-> "", map |-> m1], dbus_map, "ci", "ci", "uint32_t")

LocationLTE_fill_from_variant_map(m, dbus_map) ==
    insert_hex(LocationBase_fill_from_variant_map(m, dbus_map),
               dbus_map, "tac", "tac", "uint32_t")

\* a location of a 5G cell that keeps the tag of the LocationLTE constructor
LocationNR5G_tagged_lte(dbus_map) ==
    LocationLTE_fill_from_variant_map(LocationLTE, dbus_map)

\* LocationLTE::from_variant_map, LocationNR5G::from_variant_map
LocationLTE_from_variant_map(dbus_map) ==
    LocationLTE_fill_from_variant_map(LocationLTE, dbus_map)

LocationNR5G_from_variant_map(dbus_map) ==
    LocationLTE_fill_from_variant_map(LocationNR5G, dbus_map)

\* CellInfoBase::CellInfoBase, CellInfoBase::fill_from_variant_map
CellInfoBase(tech) == [k \in {"tech"} |-> any("Technology", tech)]

CellInfoBase_fill_from_variant_map(m, dbus_map) ==
    insert_hex([error |-> "", map |-> maybe_insert_from_variant_map(m, dbus_map, "serving")],
               dbus_map, "ci", "ci", "uint32_t")

\* CellInfoLTE::from_variant_map, CellInfoNR5G::from_variant_map: the record
\* or the exception that leaves the factory
CellInfo_from_variant_map(tech, res) ==
    LET lte == tech = Technology_LTE
        filled == CellInfoBase_fill_from_variant_map(CellInfoBase(tech), res)
        arfcn == IF filled.error # "" THEN filled
                 ELSE [error |-> "",
                       map |-> maybe_insert_from_variant_map(
                                   filled.map, res, IF lte THEN "earfcn" ELSE "nrarfcn")]
        pci == insert_hex(arfcn, res, "physical-ci", "pci", "uint16_t")
        signal_ == IF lte THEN any("std::shared_ptr<SignalLTE>", SignalLTE_from_variant_map(res))
                  ELSE any("std::shared_ptr<SignalNR5G>", SignalNR5G_from_variant_map(res))
        location_ == IF lte THEN LocationLTE_from_variant_map(res)
                    ELSE LocationNR5G_from_variant_map(res)
        location_type == IF lte THEN "std::shared_ptr<LocationLTE>"
                         ELSE "std::shared_ptr<LocationNR5G>"
    IN IF pci.error # "" THEN [error |-> pci.error, value |-> Void]
       ELSE IF location_.error # "" THEN [error |-> location_.error, value |-> Void]
       ELSE [error |-> "",
             value |-> [kind |-> "CellInfo", tech |-> tech,
                        map |-> insert(insert(pci.map, "signal", signal_),
                                       "location", any(location_type, location_.map))]]

\* the loop of Modem::cell_info from record i on; res.at("cell-type") throws
\* std::out_of_range, which leaves cell_info
RECURSIVE cell_info_loop(_, _, _)
cell_info_loop(result, i, infos) ==
    IF i > Len(result) THEN [error |-> "", infos |-> infos]
    ELSE LET res == result[i]
         IN IF "cell-type" \notin DOMAIN res
            THEN [error |-> "std::out_of_range", infos |-> <<>>]
            ELSE LET cell_type == res["cell-type"].val
                     lte == IF cell_type = MM_CELL_TYPE_LTE
                            THEN <<CellInfo_from_variant_map(Technology_LTE, res)>>
                            ELSE <<>>
                     nr == IF cell_type = MM_CELL_TYPE_5GNR
                           THEN <<CellInfo_from_variant_map(Technology_NR5G, res)>>
                           ELSE <<>>
                     made == lte \o nr
                 IN IF made # <<>> /\ made[1].error # ""
                    THEN [error |-> made[1].error, infos |-> <<>>]
                    ELSE cell_info_loop(result, i + 1,
                                        infos \o [k \in 1..Len(made) |-> made[k].value])

\* Modem::cell_info: GetCellInfo is called whatever the modem's state is
cell_info(result) ==
    LET decoded == cell_info_loop(result, 1, <<>>)
    IN /\ sent' = <<"GetCellInfo">>
       /\ Unguarded("cell_info", decoded.error,
                    [kind |-> "CellInfos", cells |-> decoded.infos])
       /\ UNCHANGED <<mm_state, mm_rate, mm_tech, mm_lock, input, obsvars, regvars>>

\* the service changes the modem's lock
UnlockRequiredChanged(new) ==
    /\ new # mm_lock
    /\ mm_lock' = new
    /\ UNCHANGED <<mm_state, mm_rate, mm_tech, input, sent, outcome, obsvars, regvars>>

\* the service changes the modem's state or its access technology
StateChanged(new) ==
    /\ new # mm_state
    /\ mm_state' = new
    /\ invoked' = IF "StateChanged" \in DOMAIN handlers
                  THEN <<Call(handlers["StateChanged"].observer,
                              [kind |-> "states", old |-> mm_state, new |-> new])>>
                  ELSE <<>>
    /\ UNCHANGED <<mm_rate, mm_tech, mm_lock, input, sent, outcome, handlers, nm,
                   regvars>>

AccessTechnologiesChanged(new) ==
    /\ new # mm_tech
    /\ mm_tech' = new
    /\ UNCHANGED <<mm_state, mm_rate, mm_lock, input, sent, outcome, obsvars, regvars>>

\* a call of Modem::technology: the AccessTechnologies property is read and
\* mapped
Modem_technology ==
    /\ sent' = <<>>
    /\ Unguarded("technology", "",
                 [kind |-> "Technology", tech |-> technology(mm_tech)])
    /\ UNCHANGED <<mm_state, mm_rate, mm_tech, mm_lock, input, obsvars, regvars>>

\* ---- the network time and std::get_time ------------------------------------------
\* "2023-02-13T12:34:56+01:00"
SampleTime ==
    <<"2", "0", "2", "3", "-", "0", "2", "-", "1", "3", "T",
      "1", "2", ":", "3", "4", ":", "5", "6", "+", "0", "1", ":", "0", "0">>

NoTm == [ok |-> FALSE, next |-> 0, tm_year |-> 0, tm_mon |-> 0, tm_mday |-> 0,
         tm_hour |-> 0, tm_min |-> 0, tm_sec |-> 0]

\* a numeric conversion of std::get_time at position i: len digits whose value
\* lies in min..max. The strings of the model give every field its full width
\* or no digit at all, so that the standard libraries agree on them.
RECURSIVE extract_digits(_, _, _, _)
extract_digits(s, i, len, acc) ==
    IF len = 0 THEN [ok |-> TRUE, value |-> acc, next |-> i]
    ELSE IF i > Len(s) \/ ~isdigit(s[i]) THEN [ok |-> FALSE, value |-> acc, next |-> i]
    ELSE extract_digits(s, i + 1, len - 1, acc * 10 + xdigit_value(s[i]))

extract_num(s, i, min, max, len) ==
    LET r == extract_digits(s, i, len, 0)
    IN [r EXCEPT !.ok = r.ok /\ r.value >= min /\ r.value <= max]

\* a character of the format that is not a conversion
literal(s, i, c) == i <= Len(s) /\ s[i] = c

\* iss >> std::get_time(&tm, "%Y-%m-%dT%H:%M:%S"): the fields of tm, ok being
\* !iss.fail(); what follows the seconds is not read
get_time(s) ==
    LET Y == extract_num(s, 1, 0, 9999, 4)
        m == extract_num(s, Y.next + 1, 1, 12, 2)
        d == extract_num(s, m.next + 1, 1, 31, 2)
        H == extract_num(s, d.next + 1, 0, 23, 2)
        M == extract_num(s, H.next + 1, 0, 59, 2)
        S == extract_num(s, M.next + 1, 0, 60, 2)
    IN IF ~Y.ok \/ ~literal(s, Y.next, "-") THEN NoTm
       ELSE IF ~m.ok \/ ~literal(s, m.next, "-") THEN NoTm
       ELSE IF ~d.ok \/ ~literal(s, d.next, "T") THEN NoTm
       ELSE IF ~H.ok \/ ~literal(s, H.next, ":") THEN NoTm
       ELSE IF ~M.ok \/ ~literal(s, M.next, ":") THEN NoTm
       ELSE IF ~S.ok THEN NoTm
       ELSE [ok |-> TRUE, next |-> S.next, tm_year |-> Y.value - 1900,
             tm_mon |-> m.value - 1, tm_mday |-> d.value, tm_hour |-> H.value,
             tm_min |-> M.value, tm_sec |-> S.value]

\* days from 1970-01-01 to the day d of month m (1..12) of year y in the
\* proleptic Gregorian calendar
days_from_civil(y, m, d) ==
    LET yy == IF m <= 2 THEN y - 1 ELSE y
        era == yy \div 400
        yoe == yy - era * 400
        mp == IF m > 2 THEN m - 3 ELSE m + 9
        doy == (153 * mp + 2) \div 5 + d - 1
        doe == yoe * 365 + yoe \div 4 - yoe \div 100 + doy
    IN era * 146097 + doe - 719468

\* mktime in a zone one hour east of UTC
mktime_cet(tm) ==
    days_from_civil(tm.tm_year + 1900, tm.tm_mon + 1, tm.tm_mday) * 86400
        + tm.tm_hour * 3600 + tm.tm_min * 60 + tm.tm_sec - 3600

\* ::timegm(&tm): the fields read as UTC; the years of the model end before
\* 2038
timegm(tm) ==
    days_from_civil(tm.tm_year + 1900, tm.tm_mon + 1, tm.tm_mday) * 86400
        + tm.tm_hour * 3600 + tm.tm_min * 60 + tm.tm_sec

\* Modem::network_time_epoch: network_time() with its guard, then the parse
network_time_epoch(time_str) ==
    Guarded("network_time_epoch", ModemState_ENABLED,
            LET tm == get_time(time_str)
            IN /\ sent' = <<"GetNetworkTime">>
               /\ Returned("network_time_epoch", "",
                           [kind |-> "std::time_t",
                            epoch |-> IF ~tm.ok THEN 0 ELSE timegm(tm)])
               /\ UNCHANGED <<mm_state, mm_rate, mm_tech, mm_lock, input, obsvars>>)

\* ---- SIM ------------------------------------------------------------------------
MM_ERROR_ME_INCORRECT_PARAMETERS ==
    "org.freedesktop.ModemManager1.Error.MobileEquipment.IncorrectParameters"
MM_ERROR_ME_INCORRECT_PASSWORD ==
    "org.freedesktop.ModemManager1.Error.MobileEquipment.IncorrectPassword"

\* what a method call on the SIM's proxy ends with: a reply, or a sdbus::Error
\* with the name and the message of the D-Bus error
NoError == [name |-> "", message |-> ""]
SdbusErrors ==
    [name : {MM_ERROR_ME_INCORRECT_PASSWORD, MM_ERROR_ME_INCORRECT_PARAMETERS,
             "org.freedesktop.ModemManager1.Error.MobileEquipment.SimNotInserted",
             "org.freedesktop.DBus.Error.NoReply"},
     message : {"", "SIM busy", "Incorrect PIN"}]
Replies == {NoError} \cup SdbusErrors

Pins == {"1234", "0000", "12"}
Puks == {"12345678", "1"}

\* the catch clause of SIM::send_pin and SIM::send_puk: the SIMException thrown
\* for a sdbus::Error, its what() being the words of msg joined
sim_exception_generic(err, credential, invalid) ==
    [error |-> "SIMException",
     msg |-> <<"failed to unlock SIM with " \o credential \o ": ", err.message>>]

sim_exception(err, credential, invalid) ==
    IF err.name = MM_ERROR_ME_INCORRECT_PASSWORD
    THEN [error |-> "SIMException", msg |-> <<"Incorrect " \o credential>>]
    ELSE IF err.name = MM_ERROR_ME_INCORRECT_PARAMETERS
    THEN [error |-> "SIMException", msg |-> <<"Invalid " \o invalid>>]
    ELSE [error |-> "SIMException",
          msg |-> <<"failed to unlock SIM with " \o credential \o ": ", err.message>>]

\* a call on the SIM ended: the exception that left it, none after a reply
SimOutcome(name, reply, credential, invalid) ==
    LET thrown_ == IF reply = NoError THEN [error |-> "", msg |-> <<>>]
                   ELSE sim_exception(reply, credential, invalid)
    IN outcome' = [op |-> name, state |-> ModemState_UNKNOWN, guard |-> "none",
                   error |-> thrown_.error, msg |-> thrown_.msg, value |-> Void]

\* SIM::send_pin, SIM::send_puk
send_pin(pin, reply) ==
    /\ sent' = <<"SendPin", pin>>
    /\ input' = reply
    /\ SimOutcome("send_pin", reply, "PIN", "PIN")
    /\ UNCHANGED <<mm_state, mm_rate, mm_tech, mm_lock, obsvars, regvars>>

send_puk(puk, pin, reply) ==
    /\ sent' = <<"SendPuk", puk, pin>>
    /\ input' = reply
    /\ SimOutcome("send_puk", reply, "PUK", "PUK or PIN")
    /\ UNCHANGED <<mm_state, mm_rate, mm_tech, mm_lock, obsvars, regvars>>

\* ---- Connection ------------------------------------------------------------------
NM_IF_DEVICE == "org.freedesktop.NetworkManager.Device"
NM_IF_DEVICE_STATISTICS == "org.freedesktop.NetworkManager.Device.Statistics"

\* most bytes the device counts in each direction
MaxBytes == 2

\* the callback of observe_traffic_stats (lines 122-133): RxBytes and TxBytes
\* are fetched when it runs
traffic_callback_unfiltered(observer, interfaceName, rx, tx) ==
    <<Call(observer, [kind |-> "TrafficStats", rx_bytes |-> rx, tx_bytes |-> tx])>>

traffic_callback(observer, interfaceName, rx, tx) ==
    IF interfaceName = NM_IF_DEVICE_STATISTICS
    THEN <<Call(observer, [kind |-> "TrafficStats", rx_bytes |-> rx, tx_bytes |-> tx])>>
    ELSE <<>>

\* Connection::observe_traffic_stats with Connection::get_nm_device_proxy: with
\* the bus connection alive, the interface name is read, the device looked up,
\* RefreshRateMs set and the callback registered on the device's new proxy;
\* the callback holds the proxy, which therefore outlives the call
observe_traffic_stats(observer, interval_ms) ==
    /\ Len(nm.observers) < MaxObservers
    /\ IF nm.alive
       THEN /\ sent' = <<"Get(Interface)", "GetDeviceByIpIface", "Set(RefreshRateMs)",
                         "AddMatch(PropertiesChanged)">>
            /\ nm' = [nm EXCEPT !.rate = interval_ms,
                                !.observers = Append(@, observer)]
            /\ Unguarded("observe_traffic_stats", "", Void)
       ELSE /\ sent' = <<>>
            /\ nm' = nm
            /\ Unguarded("observe_traffic_stats",
                         "ConnectionException: DBus connection lost", Void)
    /\ UNCHANGED <<mm_state, mm_rate, mm_tech, mm_lock, input, handlers, invoked,
                   regvars>>

\* the device counts traffic
Traffic(rx, tx) ==
    /\ nm.rx + rx <= MaxBytes /\ nm.tx + tx <= MaxBytes
    /\ rx + tx > 0
    /\ nm' = [nm EXCEPT !.rx = @ + rx, !.tx = @ + tx]
    /\ UNCHANGED <<mm_state, mm_rate, mm_tech, mm_lock, input, sent, outcome, handlers,
                   invoked, regvars>>

\* the event loop dispatches a PropertiesChanged signal of the device to the
\* handler of each proxy made for it
NmPropertiesChanged(interfaceName) ==
    /\ nm.alive
    /\ LET RECURSIVE calls(_)
           calls(k) == IF k > Len(nm.observers) THEN <<>>
                       ELSE traffic_callback(nm.observers[k], interfaceName, nm.rx, nm.tx)
                                \o calls(k + 1)
       IN invoked' = calls(1)
    /\ UNCHANGED <<mm_state, mm_rate, mm_tech, mm_lock, input, sent, outcome, handlers,
                   nm, regvars>>

\* the ModemManager that owns the bus connection is destroyed: conn_ expires
ConnectionLost ==
    /\ nm.alive
    /\ nm' = [nm EXCEPT !.alive = FALSE]
    /\ UNCHANGED <<mm_state, mm_rate, mm_tech, mm_lock, input, sent, outcome, handlers,
                   invoked, regvars>>

\* ---- specifications -------------------------------------------------------------

\* the registry: construction, notifications, awaits and resets
Init == InitRegistry /\ ModemIdle

Next ==
    \/ Construct
    \/ Notify
    \/ \E imei \in Imeis \cup {ANY_IMEI} : await_modem(imei)
    \/ \E m \in Paths : reset_modem_await(m)
    \/ reset_modem_reset
    \/ reset_modem_return

Spec == Init /\ [][Next]_vars

\* the registry with a Reset call that may fail
NextReset ==
    \/ Next
    \/ reset_modem_reset_throws

SpecReset == Init /\ [][NextReset]_vars

\* awaits against add signals that wait for the event loop, which handles
\* every signal that reaches the connection
NextLive ==
    \/ Construct
    \/ \E p \in Paths : InterfacesAdded(p)
    \/ dispatch
    \/ \E imei \in Imeis \cup {ANY_IMEI} : await_modem(imei)

SpecLive == Init /\ [][NextLive]_vars /\ WF_vars(dispatch)

\* the queries, which read the registry and leave it as it is
NextQuery ==
    \/ Construct
    \/ Notify
    \/ modems_available
    \/ any_modem

SpecQuery == Init /\ [][NextQuery]_vars

\* available_modems on the caller's thread against the event-loop thread
NextConc ==
    \/ Construct
    \/ Notify
    \/ available_modems_begin
    \/ available_modems_copy
    \/ available_modems_return

SpecConc == Init /\ [][NextConc]_vars

\* await_modem and the queries on the caller's thread against the add handler
\* on the event-loop thread
NextRace ==
    \/ Construct
    \/ \E p \in Paths : added_begin(p)
    \/ \E ok \in BOOLEAN : added_imei(ok)
    \/ added_set_value
    \/ added_reset
    \/ added_push_back
    \/ \E imei \in Imeis \cup {ANY_IMEI} : await_cancel(imei)
    \/ await_assign
    \/ any_modem

SpecRace == Init /\ [][NextRace]_vars

\* one Modem session
InitSession == RegistryReady /\ InitModem

NextModem ==
    \/ power_off
    \/ power_low
    \/ power_on
    \/ network_time(SampleTime)
    \/ \E signal_map \in SignalMaps : signal(signal_map)
    \/ \E interval_sec \in 1..MaxInterval : observe_signal(1, interval_sec)
    \/ \E location_res \in SampleLocations : location(location_res)
    \/ observe_location(1, FALSE)
    \/ \E new \in ModemStates : StateChanged(new)
    \/ \E new \in AccessTechnologies : AccessTechnologiesChanged(new)

SpecModem == InitSession /\ [][NextModem]_vars

\* one Modem session: the accessors and the operations without a state guard
InitAccess ==
    /\ RegistryReady
    /\ mm_state \in ModemStates
    /\ mm_rate = 0
    /\ mm_tech = AccessTechnology(14)
    /\ mm_lock \in LockStates
    /\ input = <<>>
    /\ sent = <<>>
    /\ outcome = NoOutcome
    /\ NoObservers

NextAccess ==
    \/ enabled
    \/ locked
    \/ registered
    \/ connected
    \/ \E create_ok, connect_ok \in BOOLEAN : connect(create_ok, connect_ok)
    \/ \E result \in CellResults : cell_info(result)
    \/ \E new \in ModemStates : StateChanged(new)
    \/ \E new \in LockStates : UnlockRequiredChanged(new)

SpecAccess == InitAccess /\ [][NextAccess]_vars

\* the location decoder applied to each answer of GetLocation
LocationTechnologies == {AccessTechnology(5), AccessTechnology(14), AccessTechnology(15)}

InitLocation ==
    /\ RegistryReady
    /\ mm_state = ModemState_REGISTERED
    /\ mm_rate = 0
    /\ mm_tech \in LocationTechnologies
    /\ mm_lock = LockState_UNLOCKED
    /\ input \in LocationDicts
    /\ sent = <<>>
    /\ outcome = NoOutcome
    /\ NoObservers

NextLocation == location(input)

SpecLocation == InitLocation /\ [][NextLocation]_vars

\* the AnyMap accessors applied to decoded signal records
\* every bag the service can report: each subset of the fields
SignalBags ==
    {[k \in reported |-> any("double", SignalValue(k))] : reported \in SUBSET SignalKeys}

AnyMapKeys == {"tech", "rsrp", "rsrq", "rssi", "sinr", "snr"}
AnyMapTypes == {"double", "Technology", "std::string"}
AnyMapDefaults == {0, -140}

\* the record the input's bag decodes to
Decoded ==
    dbus_signal_to_Signal(input.tech, input.bag).value.map

InitAnyMap ==
    /\ RegistryReady
    /\ mm_state = ModemState_REGISTERED
    /\ mm_rate = 0
    /\ mm_tech = 0
    /\ mm_lock = LockState_UNLOCKED
    /\ input \in [bag : SignalBags, tech : {Technology_LTE, Technology_NR5G},
                   key : AnyMapKeys, T : AnyMapTypes, default_ : AnyMapDefaults]
    /\ sent = <<>>
    /\ outcome = NoOutcome
    /\ NoObservers

\* sig.get<T>(key), sig.get_or_default<T>(key, default_), and the accessor of
\* the field key when the record type has one
AnyMap_get ==
    LET r == get(Decoded, input.T, input.key)
    IN /\ Unguarded("get", r.error, r.value)
       /\ UNCHANGED <<mm_state, mm_rate, mm_tech, mm_lock, input, sent, obsvars, regvars>>

AnyMap_get_or_default ==
    LET r == get_or_default(Decoded, input.T, input.key, input.default_)
    IN /\ Unguarded("get_or_default", r.error, r.value)
       /\ UNCHANGED <<mm_state, mm_rate, mm_tech, mm_lock, input, sent, obsvars, regvars>>

Signal_accessor ==
    /\ input.key \in SignalFields(input.tech)
    /\ LET r == Signal_field(Decoded, input.key)
       IN Unguarded("accessor", r.error, r.value)
    /\ UNCHANGED <<mm_state, mm_rate, mm_tech, mm_lock, input, sent, obsvars, regvars>>

\* sig.keys()
AnyMap_keys ==
    /\ Unguarded("keys", "", [kind |-> "keys", keys |-> keys(Decoded)])
    /\ UNCHANGED <<mm_state, mm_rate, mm_tech, mm_lock, input, sent, obsvars, regvars>>

NextAnyMap ==
    \/ AnyMap_get
    \/ AnyMap_get_or_default
    \/ Signal_accessor
    \/ AnyMap_keys

SpecAnyMap == InitAnyMap /\ [][NextAnyMap]_vars

\* insertion into a record followed by get<T>
\* one value of each kind a record holds: a string, an unsigned integer, a
\* double, a boolean and a nested record
StoredValues ==
    <<any("std::string", <<"2", "6", "2">>), any("uint32_t", 1300),
      any("double", -95), any("bool", TRUE),
      any("std::shared_ptr<SignalLTE>",
          [k \in {"rsrp"} |-> any("double", -95)] @@ SignalBase(Technology_LTE))>>

StoredTypes == {StoredValues[i].type : i \in 1..Len(StoredValues)}

\* the records a value is inserted into: the empty one and a cell record
RoundTripMaps ==
    {[k \in {} |-> any("bool", TRUE)],
     [k \in {"serving"} |-> any("bool", FALSE)] @@ CellInfoBase(Technology_LTE)}

RoundTripKeys == {"ci", "serving", "signal"}

InitRoundTrip ==
    /\ RegistryReady
    /\ mm_state = ModemState_REGISTERED
    /\ mm_rate = 0
    /\ mm_tech = 0
    /\ mm_lock = LockState_UNLOCKED
    /\ \E i \in 1..Len(StoredValues), m \in RoundTripMaps, key \in RoundTripKeys,
          T \in StoredTypes :
          input = [m |-> m, key |-> key, stored |-> StoredValues[i], T |-> T]
    /\ sent = <<>>
    /\ outcome = NoOutcome
    /\ NoObservers

\* m.insert({key, val}); m.get<T>(key)
AnyMap_insert_get ==
    LET r == get(insert(input.m, input.key, input.stored), input.T, input.key)
    IN /\ Unguarded("insert_get", r.error, r.value)
       /\ UNCHANGED <<mm_state, mm_rate, mm_tech, mm_lock, input, sent, obsvars, regvars>>

\* m.maybe_insert_from_variant_map<S>(dbus_map, key); m.get<T>(key), the
\* variant of dbus_map holding a value of type S
AnyMap_variant_get ==
    LET dbus_map == [k \in {input.key} |-> input.stored]
        r == get(maybe_insert_from_variant_map(input.m, dbus_map, input.key),
                 input.T, input.key)
    IN /\ input.stored.type \in {"std::string", "uint32_t", "double", "bool"}
       /\ Unguarded("variant_get", r.error, r.value)
       /\ UNCHANGED <<mm_state, mm_rate, mm_tech, mm_lock, input, sent, obsvars, regvars>>

NextRoundTrip ==
    \/ AnyMap_insert_get
    \/ AnyMap_variant_get

SpecRoundTrip == InitRoundTrip /\ [][NextRoundTrip]_vars

\* the cell decoder applied to lists of detailed raw records
\* hexadecimal identifiers as the service writes them, one with a digit
\* followed by another character, and two without a leading digit
GoodHex == <<"1", "A", "2", "B">>
PartHex == <<"1", "G">>
BadHex == {<<"z", "z">>, <<>>}

\* a serving cell with every field the decoder reads
FullCell(cell_type) ==
    [k \in {"cell-type", "serving", "ci", "physical-ci", "tac", "operator-id",
             "earfcn", "nrarfcn", "rsrp"} |->
        CASE k = "cell-type" -> any("uint32_t", cell_type)
          [] k = "serving" -> any("bool", TRUE)
          [] k \in {"ci", "physical-ci", "tac"} -> any("std::string", GoodHex)
          [] k = "operator-id" -> any("std::string", <<"2", "6", "2", "0", "1">>)
          [] k \in {"earfcn", "nrarfcn"} -> any("uint32_t", 1300)
          [] OTHER -> any("double", -95)]

HexKeys == {"ci", "physical-ci", "tac"}

Without(m, key) == [k \in DOMAIN m \ {key} |-> m[k]]

\* the full records, each with one identifier replaced or left out, the
\* records of the two cell types with no other key, a record of another cell
\* type and a record without the cell-type key
DetailedCells ==
    LET full == {FullCell(t) : t \in {MM_CELL_TYPE_LTE, MM_CELL_TYPE_5GNR}}
    IN full
        \cup {[k \in {"cell-type"} |-> any("uint32_t", t)] :
                 t \in {MM_CELL_TYPE_LTE, MM_CELL_TYPE_5GNR}}
        \cup {[c EXCEPT ![key] = any("std::string", hex)] :
                 c \in full, key \in HexKeys, hex \in BadHex \cup {PartHex}}
        \cup {Without(c, key) : c \in full, key \in HexKeys}
        \cup {FullCell(MM_CELL_TYPE_GSM), Without(FullCell(MM_CELL_TYPE_LTE), "cell-type")}

DetailedResults == UNION {[1..n -> DetailedCells] : n \in 0..MaxCells}

InitCells ==
    /\ RegistryReady
    /\ mm_state = ModemState_REGISTERED
    /\ mm_rate = 0
    /\ mm_tech = AccessTechnology(14)
    /\ mm_lock = LockState_UNLOCKED
    /\ input \in DetailedResults
    /\ sent = <<>>
    /\ outcome = NoOutcome
    /\ NoObservers

NextCells == cell_info(input)

SpecCells == InitCells /\ [][NextCells]_vars

\* the SIM of a locked modem
InitSim ==
    /\ RegistryReady
    /\ mm_state = ModemState_LOCKED
    /\ mm_rate = 0
    /\ mm_tech = 0
    /\ mm_lock = LockState_SIM_PIN
    /\ input = NoError
    /\ sent = <<>>
    /\ outcome = NoOutcome
    /\ NoObservers

NextSim ==
    \/ \E pin \in Pins, reply \in Replies : send_pin(pin, reply)
    \/ \E puk \in Puks, pin \in Pins, reply \in Replies : send_puk(puk, pin, reply)

SpecSim == InitSim /\ [][NextSim]_vars

\* one Modem session, its observers and the signals of its object
ObservedStates == {ModemState_ENABLED, ModemState_REGISTERED}

InitObserve ==
    /\ RegistryReady
    /\ mm_state = ModemState_REGISTERED
    /\ mm_rate = 0
    /\ mm_tech = AccessTechnology(14)
    /\ mm_lock = LockState_UNLOCKED
    /\ input = <<>>
    /\ sent = <<>>
    /\ outcome = NoOutcome
    /\ NoObservers

NextObserve ==
    \/ \E observer \in Observers : observe_modem_state(observer)
    \/ \E observer \in Observers, interval_sec \in 1..MaxInterval :
          observe_signal(observer, interval_sec)
    \/ \E observer \in Observers, temporary \in BOOLEAN :
          observe_location(observer, temporary)
    \/ \E interfaceName \in InterfaceNames, changedProperties \in ChangedProperties :
          PropertiesChanged(interfaceName, changedProperties)
    \/ \E new \in ObservedStates : StateChanged(new)

SpecObserve == InitObserve /\ [][NextObserve]_vars

\* one Connection of a connected modem and the device of its interface
InitTraffic ==
    /\ RegistryReady
    /\ mm_state = ModemState_CONNECTED
    /\ mm_rate = 0
    /\ mm_tech = AccessTechnology(14)
    /\ mm_lock = LockState_UNLOCKED
    /\ input = <<>>
    /\ sent = <<>>
    /\ outcome = NoOutcome
    /\ NoObservers

NextTraffic ==
    \/ \E observer \in Observers, interval_ms \in 0..MaxInterval :
          observe_traffic_stats(observer, interval_ms)
    \/ \E rx, tx \in 0..1 : Traffic(rx, tx)
    \/ \E interfaceName \in {NM_IF_DEVICE, NM_IF_DEVICE_STATISTICS} :
          NmPropertiesChanged(interfaceName)
    \/ ConnectionLost

SpecTraffic == InitTraffic /\ [][NextTraffic]_vars

\* technology() over the values of MM_MODEM_ACCESS_TECHNOLOGY_*: no bit, each
\* bit from POTS (0) to LTE_NB_IOT (17), and masks of two bits
RawTechnologies ==
    {0} \cup {AccessTechnology(b) : b \in 0..17}
        \cup {AccessTechnology(14) + AccessTechnology(15),
              AccessTechnology(1) + AccessTechnology(3),
              AccessTechnology(5) + AccessTechnology(8)}

InitTechnology ==
    /\ RegistryReady
    /\ mm_state = ModemState_REGISTERED
    /\ mm_rate = 0
    /\ mm_tech \in RawTechnologies
    /\ mm_lock = LockState_UNLOCKED
    /\ input = <<>>
    /\ sent = <<>>
    /\ outcome = NoOutcome
    /\ NoObservers

NextTechnology ==
    \/ Modem_technology
    \/ \E new \in RawTechnologies : AccessTechnologiesChanged(new)

SpecTechnology == InitTechnology /\ [][NextTechnology]_vars

\* the network time parsed from each answer of GetNetworkTime
\* dates, separators, times of day and zone suffixes the answers are made of
TimeDates ==
    {<<"2", "0", "2", "3", "-", "0", "2", "-", "1", "3">>,
     <<"1", "9", "7", "0", "-", "0", "1", "-", "0", "1">>,
     <<"2", "0", "2", "4", "-", "0", "3", "-", "0", "1">>,
     <<"2", "0", "2", "3", "-", "0", "2", "-", "3", "1">>,
     <<"2", "0", "2", "3", "-", "1", "3", "-", "0", "1">>,
     <<"2", "0", "2", "3", "/", "0", "2", "/", "1", "3">>}
TimeSeparators == {<<"T">>, <<" ">>}
TimesOfDay ==
    {<<"1", "2", ":", "3", "4", ":", "5", "6">>,
     <<"0", "0", ":", "0", "0", ":", "0", "0">>,
     <<"2", "5", ":", "0", "0", ":", "0", "0">>,
     <<"1", "2", ":", "3", "4">>}
TimeZones == {<<>>, <<"Z">>, <<"+", "0", "2", ":", "0", "0">>}

TimeStrings ==
    {d \o sep \o t \o z :
        d \in TimeDates, sep \in TimeSeparators, t \in TimesOfDay, z \in TimeZones}

InitTime ==
    /\ RegistryReady
    /\ mm_state \in ModemStates
    /\ mm_rate = 0
    /\ mm_tech = AccessTechnology(14)
    /\ mm_lock = LockState_UNLOCKED
    /\ input \in TimeStrings
    /\ sent = <<>>
    /\ outcome = NoOutcome
    /\ NoObservers

NextTime ==
    \/ network_time(input)
    \/ network_time_epoch(input)

SpecTime == InitTime /\ [][NextTime]_vars

\* ---- claims -------------------------------------------------------------------

PendingPromises == {k \in 1..Len(promises) : promises[k].state = "pending"}

\* C1: the registry holds at most one pending await, the one in awaited_modem_;
\* an await_modem call made while an await is pending completes the previous
\* future with the cancellation error and leaves the new promise as the only
\* pending one.
C1_SingleOutstandingAwait ==
    /\ [](PendingPromises = IF awaited_modem_ = NoAwait THEN {}
                            ELSE {awaited_modem_[2]})
    /\ [][Len(promises') > Len(promises) =>
            /\ awaited_modem_ # NoAwait =>
                  promises'[awaited_modem_[2]] = [state |-> "exception", value |-> NoModem]
            /\ awaited_modem_' # NoAwait
            /\ awaited_modem_'[2] = Len(promises')
            /\ PendingPromises' = {Len(promises')}]_vars

C1_Witness ==
    /\ awaited_modem_ # NoAwait
    /\ awaited_modem_[2] = 2
    /\ promises[1].state = "exception"
    /\ promises[2].state = "pending"

C3_RemoveDropsSession ==
    [][\A p \in Paths : onInterfacesRemoved(p) =>
          modems_' = SelectSeq(modems_, LAMBDA m : m # p)]_vars

FirstMatching(adds, imei) ==
    LET at == {i \in 1..Len(adds) : DeviceImei(adds[i]) = imei}
    IN IF at = {} THEN NoModem
       ELSE adds[CHOOSE i \in at : \A j \in at : i <= j]

C5_ConstructedFromEnumeration ==
    /\ [](delivered > 0 => ctor_pc = "ready")
    /\ [][enterEventLoopAsync =>
            /\ modems_' = managed
            /\ awaited_modem_' = NoAwait
            /\ delivered' = 0]_vars

C5_Witness ==
    /\ ctor_pc = "ready"
    /\ delivered = 0
    /\ Len(modems_) >= 2

\* C6: whichever step of connecting fails, construction fails with
\* ModemManagerException and the event loop is not started.
C6_FailsWithModemManagerException ==
    ctor_pc = "failed" => thrown = "ModemManagerException" /\ ~loop_running

\* C7: any_modem returns none when no device is present and otherwise the
\* first entry of the live set, the earliest-added device still present.
C7_AnyModemIsEarliestPresent ==
    [][any_modem =>
          /\ ret'.modem = IF modems_ = <<>> THEN NoModem ELSE modems_[1]
          /\ ret'.modem = IF managed = <<>> THEN NoModem ELSE managed[1]]_vars

\* C8: available_modems returns the live set as it was at one instant between
\* call and return, and notifications after the return leave the returned
\* collection as it is.
C8_PointInTimeCopy ==
    [][/\ available_modems_return => ret'.modems \in copy.seen
       /\ (ret.op = "available_modems" /\ Notify) => ret' = ret]_vars

\* C9: modems_available returns true iff the live set holds a modem.
C9_ModemsAvailable ==
    [][modems_available => (ret'.flag <=> modems_ # <<>>)]_vars

\* the thresholds C10 names
GuardedOperations ==
    {"power_off", "power_low", "power_on", "network_time", "signal",
     "observe_signal", "location", "observe_location"}

Threshold(op) ==
    CASE op \in {"power_off", "power_low", "power_on"} -> ModemState_DISABLED
      [] op = "network_time" -> ModemState_ENABLED
      [] OTHER -> ModemState_REGISTERED

PowerOperations == {"power_off", "power_low", "power_on"}

\* C11: a power-state change is sent to the service only while the modem's state
\* equals DISABLED; in every other state the request is rejected and not sent.
C11_PowerOnlyWhileDisabled ==
    outcome.op \in PowerOperations =>
        /\ sent # <<>> => outcome.state = ModemState_DISABLED
        /\ outcome.state # ModemState_DISABLED =>
              outcome.guard = "rejected" /\ sent = <<>>

\* C12: a guarded operation called below its threshold raises the precondition
\* error carrying the actual and the required state and sends no method call;
\* no step that ends in a rejection changes the server's refresh rate.
C12_RejectedSendsNothing ==
    /\ [](outcome.op \in GuardedOperations /\ outcome.state < Threshold(outcome.op) =>
            /\ outcome.error = "ModemException: modem state"
            /\ outcome.msg = <<outcome.state, Threshold(outcome.op)>>
            /\ outcome.value = Void
            /\ sent = <<>>)
    /\ [][outcome'.guard = "rejected" => mm_rate' = mm_rate]_vars

\* signal() rejected while the modem searches, after an observe_signal had set
\* the refresh rate
C12_Witness ==
    /\ outcome.op = "signal"
    /\ outcome.guard = "rejected"
    /\ outcome.msg = <<ModemState_SEARCHING, ModemState_REGISTERED>>
    /\ mm_rate = MaxInterval
    /\ sent = <<>>

\* C13: cell_info() called while the modem's state is below REGISTERED fails
\* with the precondition error and does not issue GetCellInfo.
C13_CellInfoGuarded ==
    [][\A result \in CellResults :
          cell_info(result) /\ mm_state < ModemState_REGISTERED =>
              /\ outcome'.error = "ModemException: modem state"
              /\ sent' = <<>>]_vars

\* C14: enabled() is state >= ENABLED, registered() is state >= REGISTERED,
\* connected() is state = CONNECTED, and locked() is true exactly for the locks
\* other than UNLOCKED and SIM_PIN2.
C14_DerivedFlags ==
    [][/\ enabled => outcome'.value.flag = (mm_state >= ModemState_ENABLED)
       /\ registered => outcome'.value.flag = (mm_state >= ModemState_REGISTERED)
       /\ connected => outcome'.value.flag = (mm_state = ModemState_CONNECTED)
       /\ locked => outcome'.value.flag =
                       (mm_lock \notin {LockState_UNLOCKED, LockState_SIM_PIN2})]_vars

\* locked() answered false for SIM_PIN2
C14_Witness ==
    /\ outcome.op = "locked"
    /\ mm_lock = LockState_SIM_PIN2
    /\ outcome.value = [kind |-> "bool", flag |-> FALSE]

\* C16: connect sends CreateBearer and then Connect on the created bearer; when
\* CreateBearer fails nothing follows it; when Connect fails its error reaches
\* the caller and no call follows it (no deletion, no second Connect).
C16_ConnectCreatesThenActivates ==
    [][\A create_ok, connect_ok \in BOOLEAN : connect(create_ok, connect_ok) =>
          /\ create_ok => sent' = <<"CreateBearer", "Bearer.Connect">>
          /\ ~create_ok => /\ sent' = <<"CreateBearer">>
                           /\ outcome'.error = "sdbus::Error: CreateBearer"
          /\ (create_ok /\ ~connect_ok) =>
                outcome'.error = "sdbus::Error: Bearer.Connect"
          /\ (create_ok /\ connect_ok) => outcome'.error = ""]_vars

\* the activation failed after the bearer had been created
C16_Witness ==
    /\ outcome.op = "connect"
    /\ outcome.error = "sdbus::Error: Bearer.Connect"
    /\ sent = <<"CreateBearer", "Bearer.Connect">>

\* C17: signal() at or above REGISTERED sends the refresh-rate Setup exactly
\* when the server's rate is 0, once and before the signal property is fetched;
\* a rate that is not 0 is left as it is.
C17_SetupIffRateZero ==
    [][\A signal_map \in SignalMaps :
          signal(signal_map) /\ mm_state >= ModemState_REGISTERED =>
              LET setups == SelectSeq(sent', LAMBDA c : c = "Setup")
              IN /\ Len(setups) = IF mm_rate = 0 THEN 1 ELSE 0
                 /\ mm_rate = 0 => sent'[1] = "Setup" /\ mm_rate' # 0
                 /\ mm_rate # 0 => mm_rate' = mm_rate]_vars

\* the rate was 0: Setup, then the fetch of the Lte property
C17_Witness ==
    /\ outcome.op = "signal"
    /\ outcome.guard = "passed"
    /\ sent = <<"Setup", "Get(Lte)">>
    /\ mm_rate = 5

\* C18: signal() past its guard fails with the unsupported-technology error
\* when technology() is neither LTE nor NR5G, and otherwise returns a record
\* tagged with the current technology.
C18_SignalByTechnology ==
    [][\A signal_map \in SignalMaps :
          signal(signal_map) /\ mm_state >= ModemState_REGISTERED =>
              IF technology(mm_tech) \in {Technology_LTE, Technology_NR5G}
              THEN /\ outcome'.error = ""
                   /\ outcome'.value.kind = "Signal"
                   /\ outcome'.value.map["tech"] = any("Technology", technology(mm_tech))
              ELSE /\ outcome'.error = "ModemException: technology"
                   /\ outcome'.value = Void]_vars

\* an NR5G record with every field the service reported
C18_Witness ==
    /\ outcome.op = "signal"
    /\ outcome.error = ""
    /\ outcome.value.kind = "Signal"
    /\ outcome.value.map["tech"].val = Technology_NR5G
    /\ DOMAIN outcome.value.map = {"tech", "rsrp", "rsrq", "sinr"}

\* the comma-separated fields of a string
RECURSIVE Split(_)
Split(str) ==
    LET commas == {i \in 1..Len(str) : str[i] = ","}
    IN IF commas = {} THEN <<str>>
       ELSE LET i == CHOOSE c \in commas : \A d \in commas : c <= d
            IN <<SubSeq(str, 1, i - 1)>> \o Split(SubSeq(str, i + 1, Len(str)))

\* the number a field denotes in base 16
RECURSIVE Base16(_)
Base16(field) ==
    IF field = <<>> THEN 0
    ELSE Base16(SubSeq(field, 1, Len(field) - 1)) * 16 + xdigit_value(field[Len(field)])

DigitField(field) == Len(field) \in 1..3 /\ \A i \in 1..Len(field) : isdigit(field[i])
HexField(field) == Len(field) >= 1 /\ \A i \in 1..Len(field) : isxdigit(field[i])

\* mcc,mnc,lac-hex,ci-hex,tac-hex
WellFormedLocation(fields) ==
    /\ Len(fields) >= 5
    /\ DigitField(fields[1]) /\ DigitField(fields[2])
    /\ HexField(fields[3]) /\ HexField(fields[4]) /\ HexField(fields[5])

\* the service answered with a string under the 3GPP LAC/CI source
HasLocationString == MM_MODEM_LOCATION_SOURCE_3GPP_LAC_CI \in DOMAIN input
LocationString == input[MM_MODEM_LOCATION_SOURCE_3GPP_LAC_CI]

\* C19: a well-formed location string decodes to a Location tagged LTE on LTE,
\* to a Location tagged NR5G with the fields mcc, mnc, ci, tac on NR5G, and on
\* every other technology the decoding fails as unsupported with no record.
C19_LocationByTechnology ==
    (outcome.op = "location" /\ HasLocationString
        /\ WellFormedLocation(Split(LocationString))) =>
        CASE technology(mm_tech) = Technology_LTE ->
               /\ outcome.value.kind = "Location"
               /\ outcome.value.map["tech"].val = Technology_LTE
          [] technology(mm_tech) = Technology_NR5G ->
               /\ outcome.value.kind = "Location"
               /\ outcome.value.map["tech"].val = Technology_NR5G
               /\ DOMAIN outcome.value.map = {"tech", "mcc", "mnc", "ci", "tac"}
          [] OTHER ->
               /\ outcome.value.kind # "Location"
               /\ outcome.error = "ModemException: technology"

MatchingAddWaits(k) ==
    /\ awaited_modem_ # NoAwait
    /\ awaited_modem_[2] = k
    /\ inflight # <<>>
    /\ awaited_modem_[1] \in {ANY_IMEI, DeviceImei(Head(inflight))}

BagKey(field) == IF field = "sinr" THEN "snr" ELSE field
Reported(field) == BagKey(field) \in DOMAIN input.bag

\* C21: a decoded signal record holds each field the bag reported, with the
\* reported value, and no field the bag did not report: the accessor of a
\* reported field returns the value, the accessor of an unreported field fails
\* with the missing-key error, and get_or_default returns the reported value
\* or, for an unreported field, the fallback.
C21_SignalFieldsVerbatim ==
    /\ \A field \in SignalFields(input.tech) :
          /\ field \in DOMAIN Decoded <=> Reported(field)
          /\ Reported(field) => Decoded[field] = input.bag[BagKey(field)]
    /\ DOMAIN Decoded \subseteq SignalFields(input.tech) \cup {"tech"}
    /\ outcome.op = "accessor" =>
          IF Reported(input.key)
          THEN /\ outcome.error = ""
               /\ outcome.value.val = input.bag[BagKey(input.key)].val
          ELSE /\ outcome.error = "std::out_of_range"
               /\ outcome.value = Void
    /\ (outcome.op = "get_or_default" /\ input.T = "double"
          /\ input.key \in SignalFields(input.tech)) =>
          /\ outcome.error = ""
          /\ outcome.value.val = IF Reported(input.key)
                                 THEN input.bag[BagKey(input.key)].val
                                 ELSE input.default_

\* a bag with rsrp only: rsrq() failed with the missing-key error
C21_Witness ==
    /\ DOMAIN input.bag = {"rsrp"}
    /\ input.key = "rsrq"
    /\ outcome.op = "accessor"
    /\ outcome.error = "std::out_of_range"

\* the type a key of a decoded signal record is stored as
StoredType(key) == IF key = "tech" THEN "Technology" ELSE "double"

\* C22: get<T>(key) fails with the missing-key error when the key is absent,
\* with the type-mismatch error when the value is stored as another type, and
\* returns the stored value otherwise; get_or_default never fails and returns
\* the fallback in both failure cases.
C22_GetAndGetOrDefault ==
    LET present == input.key \in DOMAIN Decoded
        matches == present /\ Decoded[input.key].type = input.T
    IN /\ outcome.op = "get" =>
             CASE ~present -> outcome.error = "std::out_of_range"
               [] present /\ ~matches -> outcome.error = "std::bad_any_cast"
               [] OTHER -> /\ outcome.error = ""
                           /\ outcome.value.type = input.T
                           /\ outcome.value.val = Decoded[input.key].val
       /\ outcome.op = "get_or_default" =>
             /\ outcome.error = ""
             /\ outcome.value.val = IF matches THEN Decoded[input.key].val
                                    ELSE input.default_
       /\ present => Decoded[input.key].type = StoredType(input.key)

\* get<std::string>("rsrp") over a record that holds rsrp as a double
C22_Witness ==
    /\ input.key = "rsrp"
    /\ "rsrp" \in DOMAIN input.bag
    /\ input.T = "std::string"
    /\ outcome.op = "get"
    /\ outcome.error = "std::bad_any_cast"

\* the raw records of the input carry a cell-type
AllTyped == \A i \in 1..Len(input) : "cell-type" \in DOMAIN input[i]

\* an identifier without a leading hexadecimal digit
Malformed(str) == str = <<>> \/ ~isxdigit(str[1])

MalformedKeys(res) == {key \in HexKeys \cap DOMAIN res : Malformed(res[key].val)}

\* C23: a raw record with a malformed hexadecimal identifier (ci, tac,
\* physical-ci) gives no error to the caller of cell_info().
C23_MalformedIdentifierNoError ==
    (outcome.op = "cell_info" /\ AllTyped) => outcome.error = ""

\* the raw records an entry is expected for, in the order of the answer
RECURSIVE Supported(_)
Supported(result) ==
    IF result = <<>> THEN <<>>
    ELSE (IF Head(result)["cell-type"].val \in {MM_CELL_TYPE_LTE, MM_CELL_TYPE_5GNR}
          THEN <<Head(result)>> ELSE <<>>) \o Supported(Tail(result))

TagOf(cell_type) ==
    IF cell_type = MM_CELL_TYPE_LTE THEN Technology_LTE ELSE Technology_NR5G

\* C24: cell_info() returns, in the order of the answer, one entry for each raw
\* record whose cell-type is LTE or 5GNR, tagged with that technology, and no
\* entry and no error for a record of another cell-type.
C24_OneEntryPerSupportedCell ==
    (outcome.op = "cell_info" /\ AllTyped) =>
        LET expected == Supported(input)
        IN /\ outcome.error = ""
           /\ Len(outcome.value.cells) = Len(expected)
           /\ \A k \in 1..Len(expected) :
                 outcome.value.cells[k].tech = TagOf(expected[k]["cell-type"].val)

\* what holds of the code: the entries are as C24 says when no identifier of a
\* supported record is malformed, and std::invalid_argument leaves cell_info()
\* when one is
CellInfoDecodesOrThrows ==
    (outcome.op = "cell_info" /\ AllTyped) =>
        LET expected == Supported(input)
        IN IF \E k \in 1..Len(expected) : MalformedKeys(expected[k]) # {}
           THEN outcome.error = "std::invalid_argument" /\ outcome.value.cells = <<>>
           ELSE /\ outcome.error = ""
                /\ Len(outcome.value.cells) = Len(expected)
                /\ \A k \in 1..Len(expected) :
                      LET cell == outcome.value.cells[k]
                          res == expected[k]
                      IN /\ cell.tech = TagOf(res["cell-type"].val)
                         /\ cell.map["tech"].val = cell.tech
                         /\ \A key \in HexKeys :
                               LET as_key == IF key = "physical-ci" THEN "pci" ELSE key
                                   holder == IF key = "tac" THEN cell.map["location"].val
                                             ELSE cell.map
                               IN as_key \in DOMAIN holder <=> key \in DOMAIN res

\* the three kinds of failure of an unlock, told apart by what() of the one
\* exception type SIMException
WrongCredential == {<<"Incorrect PIN">>, <<"Incorrect PUK">>}
InvalidCredentialFormat == {<<"Invalid PIN">>, <<"Invalid PUK or PIN">>}
GenericSimFailure(message) ==
    {<<"failed to unlock SIM with PIN: ", message>>,
     <<"failed to unlock SIM with PUK: ", message>>}

\* C25: send_pin and send_puk turn the upstream incorrect-password error into
\* the wrong-credential failure, the upstream incorrect-parameters error into
\* the invalid-credential-format failure and every other upstream error into a
\* generic SIM failure carrying the upstream message; the three are pairwise
\* distinguishable; a reply raises nothing, and nothing but a SIMException
\* leaves the call.
C25_UnlockFailuresClassified ==
    outcome.op \in {"send_pin", "send_puk"} =>
        /\ outcome.error \in {"", "SIMException"}
        /\ outcome.error = "" <=> input = NoError
        /\ input.name = MM_ERROR_ME_INCORRECT_PASSWORD => outcome.msg \in WrongCredential
        /\ input.name = MM_ERROR_ME_INCORRECT_PARAMETERS =>
              outcome.msg \in InvalidCredentialFormat
        /\ (input # NoError /\ input.name \notin {MM_ERROR_ME_INCORRECT_PASSWORD,
                                                   MM_ERROR_ME_INCORRECT_PARAMETERS}) =>
              outcome.msg \in GenericSimFailure(input.message)
        /\ \A message \in {e.message : e \in SdbusErrors} :
              /\ WrongCredential \cap InvalidCredentialFormat = {}
              /\ WrongCredential \cap GenericSimFailure(message) = {}
              /\ InvalidCredentialFormat \cap GenericSimFailure(message) = {}

\* the service answered SendPuk with IncorrectParameters
C25_Witness ==
    /\ outcome.op = "send_puk"
    /\ input.name = MM_ERROR_ME_INCORRECT_PARAMETERS
    /\ outcome.error = "SIMException"
    /\ outcome.msg = <<"Invalid PUK or PIN">>

\* the handler of PropertiesChanged is the callback of observe_signal
SignalObserved ==
    /\ "PropertiesChanged" \in DOMAIN handlers
    /\ handlers["PropertiesChanged"].kind = "signal"

\* the record holds the fields of the bag, snr as sinr, and the tag
HoldsBag(map, bag, tech) ==
    /\ map["tech"] = any("Technology", tech)
    /\ DOMAIN map = {"tech"} \cup {IF k = "snr" THEN "sinr" ELSE k : k \in DOMAIN bag}
    /\ \A k \in DOMAIN bag : map[IF k = "snr" THEN "sinr" ELSE k] = bag[k]

\* C26: once observe_signal has registered its callback, a PropertiesChanged
\* signal calls the observer exactly once when its interface is the signal
\* interface and it announces Lte or Nr5g, with the record decoded from Lte
\* when Lte is announced and from Nr5g otherwise, and calls nothing in every
\* other case.
C26_SignalNotificationsFiltered ==
    [][\A interfaceName \in InterfaceNames, changedProperties \in ChangedProperties :
          (SignalObserved /\ PropertiesChanged(interfaceName, changedProperties)) =>
              IF interfaceName = MM_IF_MODEM_SIGNAL
                   /\ {"Lte", "Nr5g"} \cap DOMAIN changedProperties # {}
              THEN /\ Len(invoked') = 1
                   /\ invoked'[1].observer = handlers["PropertiesChanged"].observer
                   /\ invoked'[1].value.kind = "Signal"
                   /\ IF "Lte" \in DOMAIN changedProperties
                      THEN HoldsBag(invoked'[1].value.map, changedProperties["Lte"],
                                    Technology_LTE)
                      ELSE HoldsBag(invoked'[1].value.map, changedProperties["Nr5g"],
                                    Technology_NR5G)
              ELSE invoked' = <<>>]_vars

\* a signal announcing both Lte and Nr5g was delivered as an LTE record
C26_Witness ==
    /\ SignalObserved
    /\ Len(invoked) = 1
    /\ invoked[1].value.kind = "Signal"
    /\ invoked[1].value.map["tech"].val = Technology_LTE
    /\ DOMAIN invoked[1].value.map = {"tech", "rsrp", "rsrq"}

\* C27: registering a second observer of a kind succeeds and the new observer
\* takes the place of the first for the deliveries that follow.
C27_SecondObserverReplaces ==
    [][\A observer \in Observers :
          /\ (observe_modem_state(observer) /\ "StateChanged" \in DOMAIN handlers) =>
                /\ outcome'.error = ""
                /\ handlers'["StateChanged"].observer = observer
          /\ \A interval_sec \in 1..MaxInterval :
                (observe_signal(observer, interval_sec) /\ SignalObserved
                    /\ mm_state >= ModemState_REGISTERED) =>
                    /\ outcome'.error = ""
                    /\ handlers'["PropertiesChanged"].observer = observer
          /\ \A temporary \in BOOLEAN :
                (observe_location(observer, temporary)
                    /\ "PropertiesChanged" \in DOMAIN handlers
                    /\ handlers["PropertiesChanged"].kind = "location"
                    /\ mm_state >= ModemState_REGISTERED) =>
                    /\ outcome'.error = ""
                    /\ handlers'["PropertiesChanged"].observer = observer]_vars

\* position of a call in sent, 0 when it was not sent
SentAt(call) ==
    IF \E k \in 1..Len(sent) : sent[k] = call
    THEN CHOOSE k \in 1..Len(sent) : sent[k] = call ELSE 0

\* C28: observe_traffic_stats sets the refresh interval before it subscribes;
\* with the bus connection gone it fails with the connection-lost error and
\* sets nothing; afterwards a PropertiesChanged signal of the statistics
\* interface calls each registered observer exactly once with the counters the
\* device has then, and a signal of another interface calls nothing.
C28_TrafficStatsObserved ==
    [][/\ \A observer \in Observers, interval_ms \in 0..MaxInterval :
             observe_traffic_stats(observer, interval_ms) =>
                 IF nm.alive
                 THEN /\ outcome'.error = ""
                      /\ nm'.rate = interval_ms
                      /\ SentAt("Set(RefreshRateMs)")' > 0
                      /\ SentAt("Set(RefreshRateMs)")' < SentAt("AddMatch(PropertiesChanged)")'
                      /\ nm'.observers = Append(nm.observers, observer)
                 ELSE /\ outcome'.error = "ConnectionException: DBus connection lost"
                      /\ nm'.rate = nm.rate
                      /\ sent' = <<>>
                      /\ nm'.observers = nm.observers
       /\ \A interfaceName \in {NM_IF_DEVICE, NM_IF_DEVICE_STATISTICS} :
             NmPropertiesChanged(interfaceName) =>
                 IF interfaceName = NM_IF_DEVICE_STATISTICS
                 THEN /\ Len(invoked') = Len(nm.observers)
                      /\ \A k \in 1..Len(nm.observers) :
                            /\ invoked'[k].observer = nm.observers[k]
                            /\ invoked'[k].value.rx_bytes = nm.rx
                            /\ invoked'[k].value.tx_bytes = nm.tx
                 ELSE invoked' = <<>>]_vars

\* one observer, registered with interval 2, was called with 2 bytes received
\* and 1 sent
C28_Witness ==
    /\ nm.observers = <<1>>
    /\ nm.rate = 2
    /\ nm.rx = 2 /\ nm.tx = 1
    /\ Len(invoked) = 1
    /\ invoked[1].observer = 1
    /\ invoked[1].value.rx_bytes = 2
    /\ invoked[1].value.tx_bytes = 1

\* the connection was lost before observe_traffic_stats was called
C28_WitnessLost ==
    /\ ~nm.alive
    /\ outcome.op = "observe_traffic_stats"
    /\ outcome.error = "ConnectionException: DBus connection lost"

\* the table of the claim, by the value of each code
TechnologyTable(raw) ==
    CASE raw \in {2, 4, 8, 16} -> Technology_GSM             \* GSM, GSM-compact, GPRS, EDGE
      [] raw \in {32, 64, 128, 256, 512} -> Technology_UMTS  \* UMTS, HSDPA, HSUPA, HSPA, HSPA+
      [] raw = 16384 -> Technology_LTE
      [] raw = 32768 -> Technology_NR5G
      [] OTHER -> Technology_UNKNOWN

\* C29: technology() maps GSM, GSM-compact, GPRS and EDGE to GSM, UMTS, HSDPA,
\* HSUPA, HSPA and HSPA+ to UMTS, LTE to LTE, 5GNR to NR5G, and every other
\* value, a mask of several bits included, to UNKNOWN.
C29_TechnologyTable ==
    [][Modem_technology =>
          /\ outcome'.error = ""
          /\ outcome'.value.tech = TechnologyTable(mm_tech)]_vars

\* technology() answered UNKNOWN while the modem reported LTE and 5GNR at once
C29_Witness ==
    /\ outcome.op = "technology"
    /\ mm_tech = 16384 + 32768
    /\ outcome.value.tech = Technology_UNKNOWN

\* the number written at positions a..b of a string
RECURSIVE Num(_, _, _)
Num(str, a, b) ==
    IF a > b THEN 0 ELSE Num(str, a, b - 1) * 10 + xdigit_value(str[b])

\* YYYY-MM-DDTHH:MM:SS at the start of the string, each field in its range
ParsesAsTimestamp(str) ==
    /\ Len(str) >= 19
    /\ \A i \in (1..19) \ {5, 8, 11, 14, 17} : isdigit(str[i])
    /\ str[5] = "-" /\ str[8] = "-" /\ str[11] = "T" /\ str[14] = ":" /\ str[17] = ":"
    /\ Num(str, 6, 7) \in 1..12 /\ Num(str, 9, 10) \in 1..31
    /\ Num(str, 12, 13) \in 0..23 /\ Num(str, 15, 16) \in 0..59
    /\ Num(str, 18, 19) \in 0..60

IsLeap(y) == (y % 4 = 0 /\ y % 100 # 0) \/ y % 400 = 0

DaysInMonth(y, m) ==
    IF m = 2 THEN (IF IsLeap(y) THEN 29 ELSE 28)
    ELSE IF m \in {4, 6, 9, 11} THEN 30 ELSE 31

\* days of the years 1970..y-1, and of the months 1..m-1 of year y
RECURSIVE DaysBeforeYear(_)
DaysBeforeYear(y) ==
    IF y <= 1970 THEN 0
    ELSE DaysBeforeYear(y - 1) + (IF IsLeap(y - 1) THEN 366 ELSE 365)

RECURSIVE DaysBeforeMonth(_, _)
DaysBeforeMonth(y, m) ==
    IF m <= 1 THEN 0 ELSE DaysBeforeMonth(y, m - 1) + DaysInMonth(y, m - 1)

\* seconds from 1970-01-01T00:00:00 UTC to the instant the fields name in UTC
EpochOf(str) ==
    (DaysBeforeYear(Num(str, 1, 4)) + DaysBeforeMonth(Num(str, 1, 4), Num(str, 6, 7))
        + Num(str, 9, 10) - 1) * 86400
    + Num(str, 12, 13) * 3600 + Num(str, 15, 16) * 60 + Num(str, 18, 19)

\* C30: network_time_epoch() is rejected by the ENABLED guard of network_time()
\* before anything is sent; past the guard it raises nothing and returns 0
\* when the timestamp does not parse as YYYY-MM-DDTHH:MM:SS, and otherwise the
\* epoch seconds of the parsed fields read as UTC, whatever zone suffix
\* follows.
C30_NetworkTimeEpoch ==
    outcome.op = "network_time_epoch" =>
        IF mm_state < ModemState_ENABLED
        THEN /\ outcome.guard = "rejected"
             /\ outcome.error = "ModemException: modem state"
             /\ sent = <<>>
        ELSE /\ outcome.error = ""
             /\ sent = <<"GetNetworkTime">>
             /\ outcome.value.kind = "std::time_t"
             /\ outcome.value.epoch =
                    IF ParsesAsTimestamp(input) THEN EpochOf(input) ELSE 0

\* "2023-02-13T12:34:56+02:00" gave 1676291696
C30_Witness ==
    /\ outcome.op = "network_time_epoch"
    /\ outcome.error = ""
    /\ input = <<"2", "0", "2", "3", "-", "0", "2", "-", "1", "3", "T",
                 "1", "2", ":", "3", "4", ":", "5", "6", "+", "0", "2", ":", "0", "0">>
    /\ outcome.value.epoch = 1676291696

\* a timestamp with a blank for the T gave 0
C30_WitnessUnparsed ==
    /\ outcome.op = "network_time_epoch"
    /\ outcome.error = ""
    /\ input[11] = " "
    /\ outcome.value.epoch = 0

\* C31: keys() returns exactly the keys of the bag: as many elements as the bag
\* has entries, each key of the bag once, and no other string, the empty
\* string included.
C31_KeysExact ==
    outcome.op = "keys" =>
        LET ks == outcome.value.keys
        IN /\ Len(ks) = Cardinality(DOMAIN Decoded)
           /\ \A k \in DOMAIN Decoded : Cardinality({i \in 1..Len(ks) : ks[i] = k}) = 1
           /\ \A i \in 1..Len(ks) : ks[i] \in DOMAIN Decoded /\ ks[i] # ""

\* the key of the input is not in the record the value is inserted into
FreshKey == input.key \notin DOMAIN input.m

\* C32: a value of any kind (string, unsigned integer, double, boolean, nested
\* record) inserted under a fresh key and read with get<T> of its own type
\* comes back without an error, with the same type and the same value.
C32_InsertGetRoundTrip ==
    (outcome.op \in {"insert_get", "variant_get"} /\ FreshKey
        /\ input.T = input.stored.type) =>
        /\ outcome.error = ""
        /\ outcome.value.type = input.stored.type
        /\ outcome.value.val = input.stored.val

\* a nested signal record inserted directly, an unsigned integer inserted from
\* a variant, each read back under a fresh key
C32_Witness ==
    /\ outcome.op = "insert_get"
    /\ FreshKey
    /\ input.T = "std::shared_ptr<SignalLTE>"
    /\ outcome.error = ""
    /\ outcome.value.type = "std::shared_ptr<SignalLTE>"
    /\ "rsrp" \in DOMAIN outcome.value.val

C32_WitnessVariant ==
    /\ outcome.op = "variant_get"
    /\ FreshKey
    /\ input.T = "uint32_t"
    /\ outcome.error = ""
    /\ outcome.value.val = 1300

\* the keys of a raw record the signal decoders and the location decoders read
RawSignalKeys == {"rsrp", "rsrq", "rssi", "snr"}
RawLocationKeys == {"operator-id", "ci", "tac"}

SignalType(tech) ==
    IF tech = Technology_LTE THEN "std::shared_ptr<SignalLTE>"
    ELSE "std::shared_ptr<SignalNR5G>"

LocationType(tech) ==
    IF tech = Technology_LTE THEN "std::shared_ptr<LocationLTE>"
    ELSE "std::shared_ptr<LocationNR5G>"

\* C33: every CellInfo cell_info() returns holds a signal and a location
\* sub-record, neither of them null, both of the record types of the CellInfo's
\* technology and tagged with it; when the raw record has no signal field, or
\* no location field, the sub-record holds its tag and nothing else.
C33_CellInfoCarriesSubRecords ==
    (outcome.op = "cell_info" /\ outcome.error = "") =>
        \A k \in 1..Len(outcome.value.cells) :
            LET cell == outcome.value.cells[k]
                res == Supported(input)[k]
                sub == [key \in {"signal", "location"} |-> cell.map[key]]
            IN /\ {"signal", "location"} \subseteq DOMAIN cell.map
               /\ cell.map["tech"].val = cell.tech
               /\ sub["signal"].type = SignalType(cell.tech)
               /\ sub["location"].type = LocationType(cell.tech)
               /\ \A key \in DOMAIN sub :
                     /\ sub[key].val # Null
                     /\ "tech" \in DOMAIN sub[key].val
                     /\ sub[key].val["tech"] = any("Technology", cell.tech)
               /\ DOMAIN res \cap RawSignalKeys = {} =>
                     DOMAIN sub["signal"].val = {"tech"}
               /\ DOMAIN res \cap RawLocationKeys = {} =>
                     DOMAIN sub["location"].val = {"tech"}

\* a 5G record with the cell-type key only, after a full LTE record: the second
\* CellInfo holds a signal and a location with the tag NR5G alone
C33_Witness ==
    /\ outcome.op = "cell_info"
    /\ outcome.error = ""
    /\ Len(input) = 2
    /\ DOMAIN input[2] = {"cell-type"}
    /\ Len(outcome.value.cells) = 2
    /\ outcome.value.cells[2].tech = Technology_NR5G
    /\ outcome.value.cells[2].map["signal"].val = SignalBase(Technology_NR5G)
    /\ outcome.value.cells[2].map["location"].val = LocationNR5G
    /\ "rsrp" \in DOMAIN outcome.value.cells[1].map["signal"].val

\* C34: however await_modem on the caller's thread and the add handler on the
\* event-loop thread interleave, no promise is completed twice and the slot is
\* never found holding a completed promise: neither thread's set_exception or
\* set_value meets a promise that is already satisfied.
C34_PromiseCompletedOnce ==
    /\ ret.op # "await_modem: std::future_error"
    /\ loop.error # "std::future_error"

\* the handler compares the IMEI it copied at line 93 and fulfils the promise
\* the slot holds at line 97: the two belong to one await
FulfilsTheAwaitCompared ==
    [][(added_set_value /\ promises' # promises) =>
          imei_matches(awaited_modem_[1], loop.new_imei)]_vars

\* C35: a promise fulfilled with a device means the device is in modems_, so
\* that a caller who sees its future ready finds the device with any_modem()
\* or available_modems().
C35_ResolvedDeviceIsLive ==
    \A k \in 1..Len(promises) :
        promises[k].state = "value" => promises[k].value \in Range(modems_)

\* C37: every add notification appends the device, with or without a pending
\* await and whether or not the IMEI could be read: once the handler is done,
\* its device is in modems_; a failed IMEI read leaves the await pending.
C37_EveryAddAppends ==
    (loop.pc = "idle" /\ loop.objectPath # 0 /\ loop.error # "std::future_error") =>
        /\ loop.objectPath \in Range(modems_)
        /\ loop.error = "sdbus::Error" =>
              /\ awaited_modem_ # NoAwait
              /\ pc = "idle" => promises[awaited_modem_[2]].state = "pending"

\* C36: whatever add and remove notifications arrived, modems_ holds at most
\* one session for each object path.
C36_OneSessionPerPath ==
    \A p \in Paths : Cardinality({i \in 1..Len(modems_) : modems_[i] = p}) <= 1

\* C38: when the Reset call inside reset_modem fails, the caller gets the error
\* and the await reset_modem registered is gone: awaited_modem_ is empty when
\* reset_modem has thrown.
C38_FailedResetLeavesNoAwait ==
    ret.op = "reset_modem: sdbus::Error" => awaited_modem_ = NoAwait

\* C39: a signal() call that fails, on its state guard or with the
\* unsupported-technology error, leaves the server's refresh rate as it was.
C39_FailedSignalKeepsRate ==
    [][(outcome'.op = "signal" /\ outcome'.error # ""
          /\ \E signal_map \in SignalMaps : signal(signal_map)) =>
          mm_rate' = mm_rate]_vars

\* what holds of the code: only the call rejected by the state guard leaves the
\* rate; past the guard a rate of 0 becomes 5 whatever the technology is
RejectedSignalKeepsRate ==
    [][(outcome'.op = "signal" /\ \E signal_map \in SignalMaps : signal(signal_map)) =>
          mm_rate' = IF outcome'.guard = "passed" /\ mm_rate = 0 THEN 5 ELSE mm_rate]_vars

\* the raw records that hold the cell-type key, in the order of the answer
Typed(result) == SelectSeq(result, LAMBDA res : "cell-type" \in DOMAIN res)

\* C40: a raw record without the cell-type key does not make cell_info() fail:
\* it gives no entry, and the other records are decoded and returned as they
\* would be without it. Stated for answers whose identifiers are all well
\* formed.
C40_MissingCellTypeTolerated ==
    (outcome.op = "cell_info" /\ ~AllTyped
        /\ \A i \in 1..Len(input) : MalformedKeys(input[i]) = {}) =>
        LET expected == Supported(Typed(input))
        IN /\ outcome.error = ""
           /\ Len(outcome.value.cells) = Len(expected)
           /\ \A k \in 1..Len(expected) :
                 outcome.value.cells[k].tech = TagOf(expected[k]["cell-type"].val)

====
